---------------------------- MODULE Spec2Model ----------------------------
(***************************************************************************)
(* The rules engine of tic-tac-squared (src/src/lib/game/GameState.ts):    *)
(* nine 3x3 small boards, a meta-board of their winners, the active-board  *)
(* routing of the standard rules, and the move enumeration of the CPU      *)
(* player (src/src/lib/game/CpuPlayer.ts).                                 *)
(*                                                                         *)
(* JavaScript's null is the string "null" for a cell value and the empty   *)
(* sequence for a nullable index or record (None / Some).                  *)
(***************************************************************************)
EXTENDS Integers, Sequences, FiniteSets, TLC

\* Array(9): the cells of a board, and the small boards of the game.
NumCells == 9

\* Operations (accepted moves, rule changes, resets) explored per session that
\* leave or enter a position with more than MaxOpen playable cells.
MaxOps == 1

\* Positions with at most MaxOpen playable cells are played out in full.
MaxOpen == 7

Idx == 0 .. (NumCells - 1)

\* The index handleTimeUp passes for the board and the cell of the "special
\* move code that just switches players".
PassIndex == -1

null == "null"

Player == {"X", "O"}

GameRules == {"standard", "free-play"}

None == <<>>

Some(x) == <<x>>

WIN_PATTERNS ==
    << <<0, 1, 2>>, <<3, 4, 5>>, <<6, 7, 8>>,
       <<0, 3, 6>>, <<1, 4, 7>>, <<2, 5, 8>>,
       <<0, 4, 8>>, <<2, 4, 6>> >>

EmptyCells == [i \in Idx |-> null]

\* checkWinner with the two diagonal patterns left out.
checkWinnerNoDiagonals(cells) ==
    LET hit(p) == /\ cells[p[1]] # null
                  /\ cells[p[1]] = cells[p[2]]
                  /\ cells[p[1]] = cells[p[3]]
        hits == {i \in 1 .. 6 : hit(WIN_PATTERNS[i])}
        first == CHOOSE i \in hits : \A j \in hits : i <= j
    IN  IF hits = {} THEN null ELSE cells[WIN_PATTERNS[first][1]]

\* Board.checkWinner: the mark of the first pattern, in the order of
\* WIN_PATTERNS, whose three cells hold the same mark.
checkWinner(cells) ==
    LET hit(p) == /\ cells[p[1]] # null
                  /\ cells[p[1]] = cells[p[2]]
                  /\ cells[p[1]] = cells[p[3]]
        hits == {i \in DOMAIN WIN_PATTERNS : hit(WIN_PATTERNS[i])}
        first == CHOOSE i \in hits : \A j \in hits : i <= j
    IN  IF hits = {} THEN null ELSE cells[WIN_PATTERNS[first][1]]

\* Board.isFull
isFull(cells) == \A i \in Idx : cells[i] # null

\* The state after createGameState() without a saved state.
Fresh ==
    [smallBoards   |-> [b \in Idx |-> EmptyCells],
     metaBoard     |-> EmptyCells,
     currentPlayer |-> "X",
     activeBoard   |-> None,
     winner        |-> null,
     isDraw        |-> FALSE,
     lastMove      |-> None,
     gameRules     |-> "standard"]

\* checkGameDraw counting only the boards a player has won as decided.
checkGameDrawWonOnly(st) ==
    IF st.winner # null
    THEN FALSE
    ELSE \A i \in Idx : st.metaBoard[i] # null

\* checkGameDraw, read with the engine's fields as they are when it is called.
checkGameDraw(st) ==
    IF st.winner # null
    THEN FALSE
    ELSE \A i \in Idx : ~(st.metaBoard[i] = null /\ ~isFull(st.smallBoards[i]))

\* makeMove's returns without the test that the target board is not won.
makeMoveReturnCellOnly(st, boardIndex, cellIndex) ==
    IF st.winner # null \/ st.isDraw THEN "L214"
    ELSE IF /\ st.gameRules = "standard"
            /\ st.activeBoard # None
            /\ st.activeBoard # Some(boardIndex) THEN "L218"
    ELSE IF boardIndex \notin Idx THEN "TypeError"
    ELSE IF st.smallBoards[boardIndex][cellIndex] # null THEN "L223"
    ELSE "L267"

\* makeMove's returns without the active-board rule.
makeMoveReturnAnyBoard(st, boardIndex, cellIndex) ==
    IF st.winner # null \/ st.isDraw THEN "L214"
    ELSE IF boardIndex \notin Idx THEN "TypeError"
    ELSE IF \/ st.smallBoards[boardIndex][cellIndex] # null
            \/ st.metaBoard[boardIndex] # null THEN "L223"
    ELSE "L267"

\* makeMove's returns with the game-over test reading isDraw alone.
makeMoveReturnAfterWin(st, boardIndex, cellIndex) ==
    IF st.isDraw THEN "L214"
    ELSE IF /\ st.gameRules = "standard"
            /\ st.activeBoard # None
            /\ st.activeBoard # Some(boardIndex) THEN "L218"
    ELSE IF boardIndex \notin Idx THEN "TypeError"
    ELSE IF \/ st.smallBoards[boardIndex][cellIndex] # null
            \/ st.metaBoard[boardIndex] # null THEN "L223"
    ELSE "L267"

\* makeMove's returns without the test that the cell is empty.
makeMoveReturnAnyCell(st, boardIndex, cellIndex) ==
    IF st.winner # null \/ st.isDraw THEN "L214"
    ELSE IF /\ st.gameRules = "standard"
            /\ st.activeBoard # None
            /\ st.activeBoard # Some(boardIndex) THEN "L218"
    ELSE IF boardIndex \notin Idx THEN "TypeError"
    ELSE IF st.metaBoard[boardIndex] # null THEN "L223"
    ELSE "L267"

\* The way makeMove(boardIndex, cellIndex) leaves: one of the three early
\* returns, the end of the function, or, for a boardIndex that is no index of
\* smallBoards (targetBoard is undefined), the TypeError that reading
\* targetBoard.cells throws on line 223.
makeMoveReturn(st, boardIndex, cellIndex) ==
    IF st.winner # null \/ st.isDraw THEN "L214"
    ELSE IF /\ st.gameRules = "standard"
            /\ st.activeBoard # None
            /\ st.activeBoard # Some(boardIndex) THEN "L218"
    ELSE IF boardIndex \notin Idx THEN "TypeError"
    ELSE IF \/ st.smallBoards[boardIndex][cellIndex] # null
            \/ st.metaBoard[boardIndex] # null THEN "L223"
    ELSE "L267"

\* makeMove, "make the move" and "track the last move": the current player's
\* mark is set in the target board and the move is recorded.
placeMark(st, boardIndex, cellIndex) ==
    [st EXCEPT !.smallBoards[boardIndex][cellIndex] = st.currentPlayer,
               !.lastMove = Some([boardIndex |-> boardIndex,
                                  cellIndex |-> cellIndex,
                                  player |-> st.currentPlayer])]

\* recordBoardWinner writing a fourth value, "D", for a board that is full
\* without a winner.
recordBoardOutcome(st, boardIndex) ==
    LET boardWinner == checkWinner(st.smallBoards[boardIndex])
        meta == [st.metaBoard EXCEPT ![boardIndex] = boardWinner]
    IN  IF boardWinner # null
        THEN [st EXCEPT !.metaBoard = meta, !.winner = checkWinner(meta)]
        ELSE IF isFull(st.smallBoards[boardIndex])
        THEN [st EXCEPT !.metaBoard[boardIndex] = "D"]
        ELSE st

\* makeMove, "check if the small board now has a winner": the meta-board and
\* the overall winner change only when the target board has a winner.
recordBoardWinner(st, boardIndex) ==
    LET boardWinner == checkWinner(st.smallBoards[boardIndex])
        meta == [st.metaBoard EXCEPT ![boardIndex] = boardWinner]
    IN  IF boardWinner # null
        THEN [st EXCEPT !.metaBoard = meta, !.winner = checkWinner(meta)]
        ELSE st

\* recordDraw without the test for a winner, here or in checkGameDraw.
recordDrawUnguarded(st) ==
    [st EXCEPT !.isDraw =
        \A i \in Idx : ~(st.metaBoard[i] = null /\ ~isFull(st.smallBoards[i]))]

\* makeMove, "check for draw if no winner".
recordDraw(st) ==
    IF st.winner = null THEN [st EXCEPT !.isDraw = checkGameDraw(st)] ELSE st

\* routeNextBoard without the test that the next board is full.
routeNextBoardWonOnly(st, cellIndex) ==
    LET nextBoardIndex == cellIndex
    IN  IF st.gameRules = "standard"
        THEN IF st.metaBoard[nextBoardIndex] # null
             THEN [st EXCEPT !.activeBoard = None]
             ELSE [st EXCEPT !.activeBoard = Some(nextBoardIndex)]
        ELSE [st EXCEPT !.activeBoard = None]

\* routeNextBoard without the test that the next board is won.
routeNextBoardFullOnly(st, cellIndex) ==
    LET nextBoardIndex == cellIndex
    IN  IF st.gameRules = "standard"
        THEN IF isFull(st.smallBoards[nextBoardIndex])
             THEN [st EXCEPT !.activeBoard = None]
             ELSE [st EXCEPT !.activeBoard = Some(nextBoardIndex)]
        ELSE [st EXCEPT !.activeBoard = None]

\* makeMove, "Only update the active board in standard mode": the board the
\* next player is sent to, judged on the boards as the move has left them.
routeNextBoard(st, cellIndex) ==
    LET nextBoardIndex == cellIndex
    IN  IF st.gameRules = "standard"
        THEN IF \/ st.metaBoard[nextBoardIndex] # null
                \/ isFull(st.smallBoards[nextBoardIndex])
             THEN [st EXCEPT !.activeBoard = None]
             ELSE [st EXCEPT !.activeBoard = Some(nextBoardIndex)]
        ELSE [st EXCEPT !.activeBoard = None]

\* switchPlayer skipped by the move that ends the match.
switchPlayerUnlessOver(st) ==
    IF st.winner # null \/ st.isDraw THEN st
    ELSE [st EXCEPT !.currentPlayer = IF st.currentPlayer = "X" THEN "O" ELSE "X"]

\* makeMove, "switch player".
switchPlayer(st) ==
    [st EXCEPT !.currentPlayer = IF st.currentPlayer = "X" THEN "O" ELSE "X"]

\* The body of makeMove after its early returns.
applyMove(st, boardIndex, cellIndex) ==
    switchPlayer(
        routeNextBoard(
            recordDraw(
                recordBoardWinner(placeMark(st, boardIndex, cellIndex), boardIndex)),
            cellIndex))

\* makeMove(boardIndex, cellIndex): an early return and the TypeError both
\* leave every field as it was.
makeMove(st, boardIndex, cellIndex) ==
    IF makeMoveReturn(st, boardIndex, cellIndex) = "L267"
    THEN applyMove(st, boardIndex, cellIndex)
    ELSE st

\* checkValidMove without the test that the target board is not won.
checkValidMoveCellOnly(st, boardIndex, cellIndex) ==
    IF st.winner # null \/ st.isDraw THEN FALSE
    ELSE IF /\ st.gameRules = "standard"
            /\ st.activeBoard # None
            /\ st.activeBoard # Some(boardIndex) THEN FALSE
    ELSE IF st.smallBoards[boardIndex][cellIndex] # null THEN FALSE
    ELSE TRUE

\* checkValidMove(boardIndex, cellIndex)
checkValidMove(st, boardIndex, cellIndex) ==
    IF st.winner # null \/ st.isDraw THEN FALSE
    ELSE IF /\ st.gameRules = "standard"
            /\ st.activeBoard # None
            /\ st.activeBoard # Some(boardIndex) THEN FALSE
    ELSE IF \/ st.smallBoards[boardIndex][cellIndex] # null
            \/ st.metaBoard[boardIndex] # null THEN FALSE
    ELSE TRUE

\* setGameRules(rules)
setGameRules(st, rules) == [st EXCEPT !.gameRules = rules]

\* resetGame leaving the turn and the active board as they are.
resetGameBoardsOnly(st, rules) ==
    [st EXCEPT !.smallBoards = [b \in Idx |-> [i \in Idx |-> null]],
               !.metaBoard = [i \in Idx |-> null],
               !.winner = null,
               !.isDraw = FALSE,
               !.lastMove = None,
               !.gameRules = IF rules # None THEN rules[1] ELSE st.gameRules]

\* resetGame(options): options.rules is None when no rules are passed.
resetGame(st, rules) ==
    [st EXCEPT !.smallBoards = [b \in Idx |-> [i \in Idx |-> null]],
               !.metaBoard = [i \in Idx |-> null],
               !.currentPlayer = "X",
               !.activeBoard = None,
               !.winner = null,
               !.isDraw = FALSE,
               !.lastMove = None,
               !.gameRules = IF rules # None THEN rules[1] ELSE st.gameRules]

\* Board.to2DArray: the rows of a board.
to2DArray(cells) ==
    [row \in 0 .. 2 |-> [col \in 0 .. 2 |-> cells[row * 3 + col]]]

\* getState: the snapshot handed to the UI and to saveGameState (the game
\* mode, CPU difficulty and online status are not part of this model).
getState(st) ==
    [boards        |-> [b \in Idx |-> to2DArray(st.smallBoards[b])],
     boardWinners  |-> st.metaBoard,
     currentPlayer |-> st.currentPlayer,
     activeBoard   |-> st.activeBoard,
     winner        |-> st.winner,
     isDraw        |-> st.isDraw,
     lastMove      |-> st.lastMove,
     gameRules     |-> st.gameRules]

\* JSON.stringify of a string: the text of the string between double quotes.
jsonString(v) ==
    CASE v = "X" -> "\"X\""
      [] v = "O" -> "\"O\""
      [] v = "standard" -> "\"standard\""
      [] v = "free-play" -> "\"free-play\""

\* JSON.parse of the text of a string.
jsonUnquote(t) ==
    CASE t = "\"X\"" -> "X"
      [] t = "\"O\"" -> "O"
      [] t = "\"standard\"" -> "standard"
      [] t = "\"free-play\"" -> "free-play"

\* JSON.stringify of a CellValue: null is the literal null, a mark its text.
jsonCell(v) == IF v = null THEN "null" ELSE jsonString(v)

\* JSON.parse of the text of a CellValue.
jsonParseCell(t) == IF t = "null" THEN null ELSE jsonUnquote(t)

\* JSON.stringify of a BoardPosition: null is the literal null, a number its
\* literal.
jsonBoardPosition(v) == IF v = None THEN "null" ELSE <<v[1]>>

\* JSON.parse of the text of a BoardPosition.
jsonParseBoardPosition(t) == IF t = "null" THEN None ELSE Some(t[1])

\* JSON.stringify of a Move | null: null is the literal null, a move the
\* object of its members.
jsonMove(v) ==
    IF v = None THEN "null"
    ELSE <<[boardIndex |-> v[1].boardIndex,
            cellIndex |-> v[1].cellIndex,
            player |-> jsonString(v[1].player)]>>

\* JSON.parse of the text of a Move | null.
jsonParseMove(t) ==
    IF t = "null" THEN None
    ELSE Some([boardIndex |-> t[1].boardIndex,
               cellIndex |-> t[1].cellIndex,
               player |-> jsonUnquote(t[1].player)])

\* saveGameState: JSON.stringify(state), member by member (numbers and
\* booleans are written as their literals).
jsonStringify(state) ==
    [boards        |-> [b \in Idx |-> [row \in 0 .. 2 |-> [col \in 0 .. 2 |->
                          jsonCell(state.boards[b][row][col])]]],
     boardWinners  |-> [i \in Idx |-> jsonCell(state.boardWinners[i])],
     currentPlayer |-> jsonString(state.currentPlayer),
     activeBoard   |-> jsonBoardPosition(state.activeBoard),
     winner        |-> jsonCell(state.winner),
     isDraw        |-> state.isDraw,
     lastMove      |-> jsonMove(state.lastMove),
     gameRules     |-> jsonString(state.gameRules)]

\* JSON.parse of one member of the text of a saved state.
jsonParseMember(text, m) ==
    CASE m = "boards" -> [b \in Idx |-> [row \in 0 .. 2 |-> [col \in 0 .. 2 |->
                            jsonParseCell(text.boards[b][row][col])]]]
      [] m = "boardWinners" -> [i \in Idx |-> jsonParseCell(text.boardWinners[i])]
      [] m = "currentPlayer" -> jsonUnquote(text.currentPlayer)
      [] m = "activeBoard" -> jsonParseBoardPosition(text.activeBoard)
      [] m = "winner" -> jsonParseCell(text.winner)
      [] m = "isDraw" -> text.isDraw
      [] m = "lastMove" -> jsonParseMove(text.lastMove)
      [] m = "gameRules" -> jsonUnquote(text.gameRules)

\* loadGameState: JSON.parse(savedState), the object of the members that the
\* text has.
jsonParse(text) == [m \in DOMAIN text |-> jsonParseMember(text, m)]

\* A text that is no JSON, for which JSON.parse throws a SyntaxError.
SyntaxError == [syntaxError |-> TRUE]

\* loadGameState(): null when localStorage has no item or JSON.parse throws
\* (the catch logs the error), else the parsed value, whatever its shape.
loadGameState(item) ==
    IF item = None THEN None
    ELSE IF "syntaxError" \in DOMAIN item[1] THEN None
    ELSE Some(jsonParse(item[1]))

\* The way createGameState(initialState) leaves: initialState.boards.forEach
\* (line 167) and initialState.boardWinners.forEach (line 178) throw a
\* TypeError when the member is undefined; no other member is looked into.
createGameStateReturn(initialState) ==
    IF initialState = None THEN "L404"
    ELSE IF "boards" \notin DOMAIN initialState[1] THEN "TypeError"
    ELSE IF "boardWinners" \notin DOMAIN initialState[1] THEN "TypeError"
    ELSE "L404"

\* createGameState restoring the defaults for the turn and the active board
\* instead of the saved values.
createGameStateBoardsOnly(initialState) ==
    IF initialState = None THEN Fresh
    ELSE LET saved == initialState[1]
         IN  [smallBoards   |-> [b \in Idx |-> [i \in Idx |->
                                   saved.boards[b][i \div 3][i % 3]]],
              metaBoard     |-> saved.boardWinners,
              currentPlayer |-> "X",
              activeBoard   |-> None,
              winner        |-> saved.winner,
              isDraw        |-> saved.isDraw,
              lastMove      |-> saved.lastMove,
              gameRules     |-> saved.gameRules]

\* createGameState(initialState): the defaults, or the fields of the saved
\* snapshot; the cell at (row, col) of a saved board goes to index
\* row * 3 + col, and marks that are null are left as the new Board has them.
createGameState(initialState) ==
    IF initialState = None THEN Fresh
    ELSE LET saved == initialState[1]
             loaded(cell) == IF cell # null THEN cell ELSE null
         IN  [smallBoards   |-> [b \in Idx |-> [i \in Idx |->
                                   loaded(saved.boards[b][i \div 3][i % 3])]],
              metaBoard     |-> [i \in Idx |-> loaded(saved.boardWinners[i])],
              currentPlayer |-> saved.currentPlayer,
              activeBoard   |-> saved.activeBoard,
              winner        |-> saved.winner,
              isDraw        |-> saved.isDraw,
              lastMove      |-> saved.lastMove,
              gameRules     |-> saved.gameRules]

\* The BoardState that getCpuMove hands to CpuPlayer.getBestMove.
cpuBoardState(st) ==
    [smallBoards   |-> [b \in Idx |-> to2DArray(st.smallBoards[b])],
     boardWinners  |-> st.metaBoard,
     currentPlayer |-> st.currentPlayer,
     activeBoard   |-> st.activeBoard,
     gameRules     |-> st.gameRules]

\* The indices 0..8 in ascending order, as the loops of the code visit them.
IdxSeq == [i \in 1 .. NumCells |-> i - 1]

\* playableBoards obeying the active board under either rule set.
playableBoardsAnyRules(state) ==
    LET unwon == SelectSeq(IdxSeq, LAMBDA i : state.boardWinners[i] = null)
    IN  IF state.activeBoard # None
        THEN IF state.boardWinners[state.activeBoard[1]] = null
             THEN <<state.activeBoard[1]>>
             ELSE unwon
        ELSE unwon

\* CpuPlayer.getValidMoves, first part: the boards that can be played on.
playableBoards(state) ==
    LET unwon == SelectSeq(IdxSeq, LAMBDA i : state.boardWinners[i] = null)
    IN  IF state.activeBoard # None /\ state.gameRules = "standard"
        THEN IF state.boardWinners[state.activeBoard[1]] = null
             THEN <<state.activeBoard[1]>>
             ELSE unwon
        ELSE unwon

\* CpuPlayer.getValidMoves, second part: the empty cells of one board, row by
\* row, as moves.
emptyCellMoves(state, boardIndex) ==
    LET board == state.smallBoards[boardIndex]
        empty == SelectSeq(IdxSeq, LAMBDA k : board[k \div 3][k % 3] = null)
    IN  [i \in 1 .. Len(empty) |->
            [boardIndex |-> boardIndex,
             cellIndex |-> (empty[i] \div 3) * 3 + (empty[i] % 3)]]

RECURSIVE movesOfBoards(_, _)
movesOfBoards(state, boards) ==
    IF boards = <<>> THEN <<>>
    ELSE emptyCellMoves(state, Head(boards)) \o movesOfBoards(state, Tail(boards))

\* CpuPlayer.getValidMoves
getValidMoves(state) == movesOfBoards(state, playableBoards(state))

\* The player who is not p.
opponentOf(p) == IF p = "X" THEN "O" ELSE "X"

\* The row and the column of a cell index: Math.floor(cellIndex / 3) and
\* cellIndex % 3.
rowOf(cellIndex) == cellIndex \div 3

colOf(cellIndex) == cellIndex % 3

\* CpuPlayer.checkWinOnBoard's winPatterns: lines as <<row, col>> triples.
winPatterns ==
    << << <<0, 0>>, <<0, 1>>, <<0, 2>> >>,
       << <<1, 0>>, <<1, 1>>, <<1, 2>> >>,
       << <<2, 0>>, <<2, 1>>, <<2, 2>> >>,
       << <<0, 0>>, <<1, 0>>, <<2, 0>> >>,
       << <<0, 1>>, <<1, 1>>, <<2, 1>> >>,
       << <<0, 2>>, <<1, 2>>, <<2, 2>> >>,
       << <<0, 0>>, <<1, 1>>, <<2, 2>> >>,
       << <<0, 2>>, <<1, 1>>, <<2, 0>> >> >>

\* CpuPlayer.checkWinOnBoard
checkWinOnBoard(board, player) ==
    \E i \in DOMAIN winPatterns :
        \A j \in 1 .. 3 :
            board[winPatterns[i][j][1]][winPatterns[i][j][2]] = player

\* CpuPlayer.isBoardFull
isBoardFull(board) == \A row \in 0 .. 2, col \in 0 .. 2 : board[row][col] # null

\* An array of the CPU player, as a reference: its cells, and whether it is
\* one of the arrays the caller passed to getBestMove (callers) or an array
\* made during the call.  smallBoards[boardIndex] of a BoardState:
boardOf(state, boardIndex) ==
    [cells |-> state.smallBoards[boardIndex],
     callers |-> state.callers,
     name |-> <<"smallBoards", boardIndex>>]

\* boardWinners of a BoardState.
winnersOf(state) ==
    [cells |-> state.boardWinners,
     callers |-> state.callers,
     name |-> <<"boardWinners">>]

\* A copy that is the same arrays as its original (an assignment, or a copy
\* of the outer array only).
copySharing(array) == array

\* board.map((row) => [...row]) and [...boardWinners]: new arrays with the
\* cells of the original, none of them the caller's.
copy(array) == [array EXCEPT !.callers = FALSE]

\* array[row][col] = value
setRowCol(array, cellIndex, value) ==
    [array EXCEPT !.cells[rowOf(cellIndex)][colOf(cellIndex)] = value]

\* array[index] = value
setIndex(array, index, value) == [array EXCEPT !.cells[index] = value]

\* What a write to an array does to the caller's arrays: the write itself when
\* the array is one of them, nothing when it was made during the call.
writesTo(array, index, value) ==
    IF array.callers
    THEN {[array |-> array.name, index |-> index, value |-> value]}
    ELSE {}

\* The result of a search: the move found (or None) and the writes to the
\* caller's arrays made until then.
found(move, writes) == [move |-> move, writes |-> writes]

\* A search followed by another: the result of the first if it has a move,
\* else the result of the next, with the writes of both.
orElse(first, next) ==
    IF first.move # None THEN first
    ELSE [next EXCEPT !.writes = first.writes \cup next.writes]

\* The cell of a move in the board of the state.
cellAt(state, boardIndex, cellIndex) ==
    state.smallBoards[boardIndex][rowOf(cellIndex)][colOf(cellIndex)]

\* CpuPlayer.findWinningMove, the loop over validMoves[lo] .. validMoves[hi],
\* run as its first half and, if that returns no move, its second half.
RECURSIVE findWinningMoveIn(_, _, _, _)
findWinningMoveIn(state, validMoves, lo, hi) ==
    IF lo > hi THEN found(None, {})
    ELSE IF lo < hi
    THEN orElse(findWinningMoveIn(state, validMoves, lo, (lo + hi) \div 2),
                findWinningMoveIn(state, validMoves, (lo + hi) \div 2 + 1, hi))
    ELSE LET move == validMoves[lo]
             boardCopy == copy(boardOf(state, move.boardIndex))
             written == writesTo(boardCopy, move.cellIndex, state.currentPlayer)
         IN  IF cellAt(state, move.boardIndex, move.cellIndex) # null
             THEN found(None, {})
             ELSE IF checkWinOnBoard(
                         setRowCol(boardCopy, move.cellIndex, state.currentPlayer).cells,
                         state.currentPlayer)
             THEN found(Some(move), written)
             ELSE found(None, written)

\* CpuPlayer.findWinningMove
findWinningMove(state, validMoves) ==
    findWinningMoveIn(state, validMoves, 1, Len(validMoves))

\* CpuPlayer.findBlockingMove, the loops over row and col from cell k on: the
\* first empty cell of the board at which the opponent would complete a line.
RECURSIVE blockingCellFrom(_, _, _)
blockingCellFrom(state, boardIndex, k) ==
    IF k = NumCells THEN found(None, {})
    ELSE LET opponent == opponentOf(state.currentPlayer)
             boardCopy == copy(boardOf(state, boardIndex))
             written == writesTo(boardCopy, k, opponent)
         IN  IF cellAt(state, boardIndex, k) # null
             THEN blockingCellFrom(state, boardIndex, k + 1)
             ELSE IF checkWinOnBoard(setRowCol(boardCopy, k, opponent).cells, opponent)
             THEN found(Some([boardIndex |-> boardIndex, cellIndex |-> k]), written)
             ELSE orElse(found(None, written), blockingCellFrom(state, boardIndex, k + 1))

\* findBlockingMove looking for a cell at which the player to move, not the
\* opponent, would complete a line.
RECURSIVE findBlockingMoveOwnLines(_, _, _, _)
findBlockingMoveOwnLines(state, validMoves, lo, hi) ==
    IF lo > hi THEN found(None, {})
    ELSE IF lo < hi
    THEN orElse(findBlockingMoveOwnLines(state, validMoves, lo, (lo + hi) \div 2),
                findBlockingMoveOwnLines(state, validMoves, (lo + hi) \div 2 + 1, hi))
    ELSE blockingCellFrom([state EXCEPT !.currentPlayer = opponentOf(state.currentPlayer)],
                          validMoves[lo].boardIndex, 0)

\* CpuPlayer.findBlockingMove, the loop over validMoves[lo] .. validMoves[hi],
\* run as its first half and, if that returns no move, its second half.
RECURSIVE findBlockingMoveIn(_, _, _, _)
findBlockingMoveIn(state, validMoves, lo, hi) ==
    IF lo > hi THEN found(None, {})
    ELSE IF lo < hi
    THEN orElse(findBlockingMoveIn(state, validMoves, lo, (lo + hi) \div 2),
                findBlockingMoveIn(state, validMoves, (lo + hi) \div 2 + 1, hi))
    ELSE blockingCellFrom(state, validMoves[lo].boardIndex, 0)

\* CpuPlayer.findBlockingMove
findBlockingMove(state, validMoves) ==
    findBlockingMoveIn(state, validMoves, 1, Len(validMoves))

\* findStrategicMove's strategicCells and boardPriority: center, corners, edges.
strategicCells == <<4, 0, 2, 6, 8, 1, 3, 5, 7>>

boardPriority == <<4, 0, 2, 6, 8, 1, 3, 5, 7>>

\* moves.find((m) => m.cellIndex === cellIndex): the first move of the list
\* onto that cell, or None.
findCell(moves, cellIndex) ==
    LET hits == {i \in DOMAIN moves : moves[i].cellIndex = cellIndex}
    IN  IF hits = {} THEN None
        ELSE Some(moves[CHOOSE i \in hits : \A j \in hits : i <= j])

\* for (const cellIndex of strategicCells) { moves.find(...) }: the move with
\* the first strategic cell that some move of the list has.
firstStrategicCell(moves) ==
    LET at(k) == findCell(moves, strategicCells[k])
        hits == {k \in DOMAIN strategicCells : at(k) # None}
    IN  IF hits = {} THEN None
        ELSE at(CHOOSE k \in hits : \A j \in hits : k <= j)

\* CpuPlayer.findStrategicMove (it writes to no array)
findStrategicMove(state, validMoves) ==
    LET centerBoardMoves == SelectSeq(validMoves, LAMBDA m : m.boardIndex = 4)
        cornerBoardMoves ==
            SelectSeq(validMoves, LAMBDA m : m.boardIndex \in {0, 2, 6, 8})
        centerCellMove == findCell(cornerBoardMoves, 4)
        boardMoves(k) ==
            SelectSeq(validMoves, LAMBDA m : m.boardIndex = boardPriority[k])
        boards == {k \in DOMAIN boardPriority : boardMoves(k) # <<>>}
    IN  found(IF centerBoardMoves # <<>> THEN firstStrategicCell(centerBoardMoves)
              ELSE IF centerCellMove # None THEN centerCellMove
              ELSE IF cornerBoardMoves # <<>> THEN firstStrategicCell(cornerBoardMoves)
              ELSE IF boards = {} THEN None
              ELSE firstStrategicCell(
                       boardMoves(CHOOSE k \in boards : \A j \in boards : k <= j)),
              {})

\* CpuPlayer.findStrategicWinningMove, the loop over boardPriority from the
\* k-th board on, with findWinningMove as the fallback.
RECURSIVE findStrategicWinningMoveFrom(_, _, _)
findStrategicWinningMoveFrom(state, validMoves, k) ==
    IF k > Len(boardPriority)
    THEN findWinningMove(state, validMoves)
    ELSE LET boardMoves ==
                 SelectSeq(validMoves, LAMBDA m : m.boardIndex = boardPriority[k])
         IN  orElse(findWinningMove(state, boardMoves),
                    findStrategicWinningMoveFrom(state, validMoves, k + 1))

\* CpuPlayer.findStrategicWinningMove
findStrategicWinningMove(state, validMoves) ==
    findStrategicWinningMoveFrom(state, validMoves, 1)

\* metaBoardCopy holds a line of the player through board boardIndex.
completesMetaLine(metaBoardCopy, boardIndex, player) ==
    \E i \in DOMAIN WIN_PATTERNS :
        /\ \E j \in 1 .. 3 : WIN_PATTERNS[i][j] = boardIndex
        /\ Cardinality({j \in 1 .. 3 : metaBoardCopy[WIN_PATTERNS[i][j]] = player}) = 3

\* findGameWinningMove without the test that the move wins its small board.
RECURSIVE findGameWinningMoveAnyCell(_, _, _, _)
findGameWinningMoveAnyCell(state, validMoves, lo, hi) ==
    IF lo > hi THEN found(None, {})
    ELSE IF lo < hi
    THEN orElse(findGameWinningMoveAnyCell(state, validMoves, lo, (lo + hi) \div 2),
                findGameWinningMoveAnyCell(state, validMoves, (lo + hi) \div 2 + 1, hi))
    ELSE LET move == validMoves[lo]
             currentPlayer == state.currentPlayer
             metaBoardCopy == copy(winnersOf(state))
         IN  IF state.boardWinners[move.boardIndex] # null
             THEN found(None, {})
             ELSE IF completesMetaLine(
                         setIndex(metaBoardCopy, move.boardIndex, currentPlayer).cells,
                         move.boardIndex, currentPlayer)
             THEN found(Some(move), {})
             ELSE found(None, {})

\* CpuPlayer.findGameWinningMove, the loop over validMoves[lo] ..
\* validMoves[hi], run as its first half and, if that returns no move, its
\* second half: the first move that wins its small board and with it a line of
\* the meta-board.
RECURSIVE findGameWinningMoveIn(_, _, _, _)
findGameWinningMoveIn(state, validMoves, lo, hi) ==
    IF lo > hi THEN found(None, {})
    ELSE IF lo < hi
    THEN orElse(findGameWinningMoveIn(state, validMoves, lo, (lo + hi) \div 2),
                findGameWinningMoveIn(state, validMoves, (lo + hi) \div 2 + 1, hi))
    ELSE LET move == validMoves[lo]
             currentPlayer == state.currentPlayer
             boardCopy == copy(boardOf(state, move.boardIndex))
             written == writesTo(boardCopy, move.cellIndex, currentPlayer)
             metaBoardCopy == copy(winnersOf(state))
             writtenMeta == written \cup
                 writesTo(metaBoardCopy, move.boardIndex, currentPlayer)
         IN  IF state.boardWinners[move.boardIndex] # null
             THEN found(None, {})
             ELSE IF ~checkWinOnBoard(
                          setRowCol(boardCopy, move.cellIndex, currentPlayer).cells,
                          currentPlayer)
             THEN found(None, written)
             ELSE IF completesMetaLine(
                         setIndex(metaBoardCopy, move.boardIndex, currentPlayer).cells,
                         move.boardIndex, currentPlayer)
             THEN found(Some(move), writtenMeta)
             ELSE found(None, writtenMeta)

\* CpuPlayer.findGameWinningMove
findGameWinningMove(state, validMoves) ==
    findGameWinningMoveIn(state, validMoves, 1, Len(validMoves))

\* findGameBlockingMove, the loops over r and c from cell k on: whether the
\* opponent can complete a line of boardCopy with one mark.
RECURSIVE canOpponentWinBoardFrom(_, _, _)
canOpponentWinBoardFrom(boardCopy, opponent, k) ==
    IF k = NumCells THEN [can |-> FALSE, writes |-> {}]
    ELSE LET testBoardCopy == copy(boardCopy)
             written == writesTo(testBoardCopy, k, opponent)
             later == canOpponentWinBoardFrom(boardCopy, opponent, k + 1)
         IN  IF boardCopy.cells[rowOf(k)][colOf(k)] # null
             THEN later
             ELSE IF checkWinOnBoard(setRowCol(testBoardCopy, k, opponent).cells, opponent)
             THEN [can |-> TRUE, writes |-> written]
             ELSE [can |-> later.can, writes |-> written \cup later.writes]

\* findGameBlockingMove's potentialBlockingBoards: the undecided boards of the
\* meta-board lines in which the opponent holds two boards and one is null.
potentialBlockingBoards(state) ==
    LET opponent == opponentOf(state.currentPlayer)
        count(i, v) ==
            Cardinality({j \in 1 .. 3 : state.boardWinners[WIN_PATTERNS[i][j]] = v})
    IN  {b \in Idx :
            /\ state.boardWinners[b] = null
            /\ \E i \in DOMAIN WIN_PATTERNS :
                  /\ count(i, opponent) = 2
                  /\ count(i, null) = 1
                  /\ \E j \in 1 .. 3 : WIN_PATTERNS[i][j] = b}

\* CpuPlayer.findGameBlockingMove, the loop over validMoves[lo] ..
\* validMoves[hi], run as its first half and, if that returns no move, its
\* second half.
RECURSIVE findGameBlockingMoveIn(_, _, _, _)
findGameBlockingMoveIn(state, validMoves, lo, hi) ==
    IF lo > hi THEN found(None, {})
    ELSE IF lo < hi
    THEN orElse(findGameBlockingMoveIn(state, validMoves, lo, (lo + hi) \div 2),
                findGameBlockingMoveIn(state, validMoves, (lo + hi) \div 2 + 1, hi))
    ELSE LET move == validMoves[lo]
             currentPlayer == state.currentPlayer
             boardCopy == copy(boardOf(state, move.boardIndex))
             written == writesTo(boardCopy, move.cellIndex, currentPlayer)
             opponentWins ==
                 canOpponentWinBoardFrom(
                     setRowCol(boardCopy, move.cellIndex, currentPlayer),
                     opponentOf(currentPlayer), 0)
         IN  IF move.boardIndex \notin potentialBlockingBoards(state)
             THEN found(None, {})
             ELSE found(IF opponentWins.can THEN None ELSE Some(move),
                        written \cup opponentWins.writes)

\* CpuPlayer.findGameBlockingMove
findGameBlockingMove(state, validMoves) ==
    findGameBlockingMoveIn(state, validMoves, 1, Len(validMoves))

\* CpuPlayer.simulateMove: the state after the move, made on copies of the
\* boards and of boardWinners, and the writes to the caller's arrays.
simulateMove(state, move) ==
    LET currentPlayer == state.currentPlayer
        boardIndex == move.boardIndex
        cellIndex == move.cellIndex
        newSmallBoards == [b \in Idx |-> copy(boardOf(state, b))]
        newBoardWinners == copy(winnersOf(state))
        boardAfter == setRowCol(newSmallBoards[boardIndex], cellIndex, currentPlayer)
        wins == checkWinOnBoard(boardAfter.cells, currentPlayer)
        boardsAfter ==
            [b \in Idx |-> IF b = boardIndex THEN boardAfter.cells
                           ELSE newSmallBoards[b].cells]
        winnersAfter ==
            IF wins THEN setIndex(newBoardWinners, boardIndex, currentPlayer).cells
            ELSE newBoardWinners.cells
        newActiveBoard ==
            IF state.gameRules = "standard"
            THEN IF \/ winnersAfter[cellIndex] # null
                    \/ isBoardFull(boardsAfter[cellIndex])
                 THEN None
                 ELSE Some(cellIndex)
            ELSE None
    IN  [state |-> [smallBoards   |-> boardsAfter,
                    boardWinners  |-> winnersAfter,
                    currentPlayer |-> opponentOf(currentPlayer),
                    activeBoard   |-> newActiveBoard,
                    gameRules     |-> state.gameRules,
                    callers       |-> newBoardWinners.callers],
         writes |-> writesTo(newSmallBoards[boardIndex], cellIndex, currentPlayer)
                    \cup (IF wins
                          THEN writesTo(newBoardWinners, boardIndex, currentPlayer)
                          ELSE {})]

\* evaluateBoard's boardValueWeights (3.0, 2.0 and 1.0 in the code).
boardValueWeights(boardIndex) ==
    IF boardIndex = 4 THEN 3
    ELSE IF boardIndex \in {0, 2, 6, 8} THEN 2
    ELSE 1

\* How many of the three cells of a line hold the value.
lineCount(cells, i, value) ==
    Cardinality({j \in 1 .. 3 : cells[WIN_PATTERNS[i][j]] = value})

\* The cells of a 3x3 board by their flat index.
flat(board) == [k \in Idx |-> board[rowOf(k)][colOf(k)]]

\* evaluateBoard, the score of one line of the meta-board.
metaLineScore(boardWinners, i, player, opponent) ==
    LET playerCount == lineCount(boardWinners, i, player)
        opponentCount == lineCount(boardWinners, i, opponent)
        center == \E j \in 1 .. 3 : WIN_PATTERNS[i][j] = 4
    IN  IF playerCount = 2 /\ opponentCount = 0
        THEN 500 + (IF center THEN 100 ELSE 0)
        ELSE IF opponentCount = 2 /\ playerCount = 0
        THEN 0 - 700 - (IF center THEN 200 ELSE 0)
        ELSE IF playerCount = 1 /\ opponentCount = 0
        THEN 50 + (IF center THEN 25 ELSE 0)
        ELSE IF opponentCount = 1 /\ playerCount = 0
        THEN 0 - 40 - (IF center THEN 20 ELSE 0)
        ELSE 0

\* evaluateBoard, the score of one line of a small board.
boardLineScore(cells, i, player, opponent) ==
    LET playerCount == lineCount(cells, i, player)
        opponentCount == lineCount(cells, i, opponent)
    IN  IF playerCount = 2 /\ opponentCount = 0 THEN 10
        ELSE IF opponentCount = 2 /\ playerCount = 0 THEN 0 - 12
        ELSE IF playerCount = 1 /\ opponentCount = 0 THEN 3
        ELSE IF opponentCount = 1 /\ playerCount = 0 THEN 0 - 2
        ELSE 0

\* score += ... in a loop: the sum of the first n scores of the list.
RECURSIVE sum(_, _)
sum(scores, n) == IF n = 0 THEN 0 ELSE scores[n] + sum(scores, n - 1)

\* evaluateBoard, the score of one small board.
smallBoardScore(state, boardIndex, player, opponent) ==
    LET boardWeight == boardValueWeights(boardIndex)
        cells == flat(state.smallBoards[boardIndex])
        boardScore ==
            sum([i \in DOMAIN WIN_PATTERNS |->
                    boardLineScore(cells, i, player, opponent)],
                Len(WIN_PATTERNS))
    IN  IF state.boardWinners[boardIndex] # null
        THEN IF state.boardWinners[boardIndex] = player
             THEN 100 * boardWeight
             ELSE 0 - 100 * boardWeight
        ELSE boardScore * boardWeight
             + (IF cells[4] = player THEN 5 * boardWeight
                ELSE IF cells[4] = opponent THEN 0 - 5 * boardWeight
                ELSE 0)

\* CpuPlayer.evaluateBoard: the score of a state for state.currentPlayer.
evaluateBoard(state) ==
    LET currentPlayer == state.currentPlayer
        opponent == opponentOf(currentPlayer)
        decided == {i \in DOMAIN WIN_PATTERNS :
                       \/ lineCount(state.boardWinners, i, currentPlayer) = 3
                       \/ lineCount(state.boardWinners, i, opponent) = 3}
        first == CHOOSE i \in decided : \A j \in decided : i <= j
        centerOfCenter == state.smallBoards[4][1][1]
    IN  IF decided # {}
        THEN IF lineCount(state.boardWinners, first, currentPlayer) = 3
             THEN 10000
             ELSE 0 - 10000
        ELSE sum([i \in DOMAIN WIN_PATTERNS |->
                     metaLineScore(state.boardWinners, i, currentPlayer, opponent)],
                 Len(WIN_PATTERNS))
             + sum([b \in 1 .. NumCells |->
                       smallBoardScore(state, b - 1, currentPlayer, opponent)],
                   NumCells)
             + (IF centerOfCenter = currentPlayer THEN 15
                ELSE IF centerOfCenter = opponent THEN 0 - 15
                ELSE 0)

\* Infinity in the scores of minimax: a number above every score of
\* evaluateBoard (-Infinity is its negative).
Infinity == 1000000

max(a, b) == IF a >= b THEN a ELSE b

min(a, b) == IF a <= b THEN a ELSE b

\* CpuPlayer.minimax with alpha-beta pruning: the score, and the writes to the
\* caller's arrays made by the simulated moves.  minimaxLoop is the loop over
\* validMoves[lo] .. validMoves[hi]; loop holds maxScore or minScore (score),
\* alpha, beta, the writes so far and whether the loop has hit its break (cut).
\* The range is run as its first half followed by its second half.
\* alphaBeta is the rest of the loop's body once minimax has scored the move.
\* alphaBeta breaking out of the loop as soon as a score lies inside the
\* window, instead of when the window has closed (beta <= alpha).
alphaBetaCutInsideWindow(loop, isMaximizing, writes, result) ==
    [score  |-> IF isMaximizing THEN max(loop.score, result.score)
                ELSE min(loop.score, result.score),
     alpha  |-> IF isMaximizing THEN max(loop.alpha, result.score) ELSE loop.alpha,
     beta   |-> IF isMaximizing THEN loop.beta ELSE min(loop.beta, result.score),
     writes |-> loop.writes \cup writes \cup result.writes,
     cut    |-> IF isMaximizing THEN loop.alpha <= result.score
                ELSE result.score <= loop.beta]

alphaBeta(loop, isMaximizing, writes, result) ==
    [score  |-> IF isMaximizing THEN max(loop.score, result.score)
                ELSE min(loop.score, result.score),
     alpha  |-> IF isMaximizing THEN max(loop.alpha, result.score) ELSE loop.alpha,
     beta   |-> IF isMaximizing THEN loop.beta ELSE min(loop.beta, result.score),
     writes |-> loop.writes \cup writes \cup result.writes,
     cut    |-> IF isMaximizing THEN loop.beta <= max(loop.alpha, result.score)
                ELSE min(loop.beta, result.score) <= loop.alpha]

RECURSIVE minimax(_, _, _, _, _)
RECURSIVE minimaxLoop(_, _, _, _, _, _, _)
minimaxLoop(state, validMoves, lo, hi, depth, isMaximizing, loop) ==
    IF loop.cut THEN loop
    ELSE IF lo < hi
    THEN minimaxLoop(state, validMoves, (lo + hi) \div 2 + 1, hi, depth, isMaximizing,
                     minimaxLoop(state, validMoves, lo, (lo + hi) \div 2, depth,
                                 isMaximizing, loop))
    ELSE LET newState == simulateMove(state, validMoves[lo])
         IN  alphaBeta(loop, isMaximizing, newState.writes,
                       minimax(newState.state, depth - 1, ~isMaximizing,
                               loop.alpha, loop.beta))

minimax(state, depth, isMaximizing, alpha, beta) ==
    LET validMoves == getValidMoves(state)
    IN  IF depth = 0 THEN [score |-> evaluateBoard(state), writes |-> {}]
        ELSE IF validMoves = <<>>
        THEN [score |-> evaluateBoard(state), writes |-> {}]
        ELSE minimaxLoop(state, validMoves, 1, Len(validMoves), depth, isMaximizing,
                         [score  |-> IF isMaximizing THEN 0 - Infinity ELSE Infinity,
                          alpha  |-> alpha,
                          beta   |-> beta,
                          writes |-> {},
                          cut    |-> FALSE])

\* CpuPlayer.findMinimaxMove, the loop over validMoves[lo] .. validMoves[hi]:
\* the first move of the highest score, its score and the writes.  The range
\* is run as its first half and its second half, and a move of the second
\* half replaces the best of the first only with a higher score (betterOf).
\* scored is the loop's body for one move, from bestScore = -Infinity.
\* betterOf with a move of equal score replacing the earlier one.
betterOfOrEqual(first, second) ==
    [bestScore |-> IF second.bestScore >= first.bestScore THEN second.bestScore
                   ELSE first.bestScore,
     bestMove  |-> IF second.bestScore >= first.bestScore THEN second.bestMove
                   ELSE first.bestMove,
     writes    |-> first.writes \cup second.writes]

betterOf(first, second) ==
    [bestScore |-> IF second.bestScore > first.bestScore THEN second.bestScore
                   ELSE first.bestScore,
     bestMove  |-> IF second.bestScore > first.bestScore THEN second.bestMove
                   ELSE first.bestMove,
     writes    |-> first.writes \cup second.writes]

\* scored with bestScore starting at +Infinity: no score is higher.
scoredFromInfinity(move, writes, result) ==
    [bestScore |-> IF result.score > Infinity THEN result.score ELSE Infinity,
     bestMove  |-> IF result.score > Infinity THEN Some(move) ELSE None,
     writes    |-> writes \cup result.writes]

scored(move, writes, result) ==
    [bestScore |-> IF result.score > 0 - Infinity THEN result.score ELSE 0 - Infinity,
     bestMove  |-> IF result.score > 0 - Infinity THEN Some(move) ELSE None,
     writes    |-> writes \cup result.writes]

RECURSIVE findMinimaxMoveIn(_, _, _, _, _)
findMinimaxMoveIn(state, validMoves, depth, lo, hi) ==
    IF lo < hi
    THEN betterOf(findMinimaxMoveIn(state, validMoves, depth, lo, (lo + hi) \div 2),
                  findMinimaxMoveIn(state, validMoves, depth, (lo + hi) \div 2 + 1, hi))
    ELSE LET newState == simulateMove(state, validMoves[lo])
         IN  scored(validMoves[lo], newState.writes,
                    minimax(newState.state, depth - 1, FALSE, 0 - Infinity, Infinity))

\* return bestMove
bestMoveOf(loop) == found(loop.bestMove, loop.writes)

\* CpuPlayer.findMinimaxMove
findMinimaxMove(state, validMoves, depth) ==
    IF validMoves = <<>> THEN found(None, {})
    ELSE bestMoveOf(findMinimaxMoveIn(state, validMoves, depth, 1, Len(validMoves)))

\* The outcomes of the calls of Math.random() that one call of getBestMove can
\* make.  RandomTests: whether each "Math.random() < p" holds (FALSE for the
\* tests the difficulty never makes).  RandomIndexes: the index
\* Math.floor(Math.random() * validMoves.length) of the random move.
RandomTests(difficulty) ==
    [win       : IF difficulty = "expert" THEN {FALSE} ELSE BOOLEAN,
     block     : IF difficulty = "expert" THEN {FALSE} ELSE BOOLEAN,
     strategic : IF difficulty = "moderate" THEN BOOLEAN ELSE {FALSE},
     minimax   : IF difficulty = "moderate" THEN BOOLEAN ELSE {FALSE}]

RandomIndexes(state) ==
    0 .. (IF getValidMoves(state) = <<>> THEN 0 ELSE Len(getValidMoves(state)) - 1)

outcomes(tests, index) ==
    [win |-> tests.win, block |-> tests.block, strategic |-> tests.strategic,
     minimax |-> tests.minimax, index |-> index]

\* The result of a step of a cascade, with the name of the step (by).
by(step, result) == [move |-> result.move, writes |-> result.writes, by |-> step]

\* No search made (its Math.random() test failed).
skipped == found(None, {})

\* return null: validMoves is empty.
noMove == by("none", found(None, {}))

\* validMoves[Math.floor(Math.random() * validMoves.length)]
randomMove(validMoves, random) ==
    by("random", found(Some(validMoves[random.index + 1]), {}))

\* CpuPlayer.getEasyMove
getEasyMove(state, random) ==
    LET validMoves == getValidMoves(state)
        winning == by("findWinningMove", findWinningMove(state, validMoves))
        blocking == by("findBlockingMove", findBlockingMove(state, validMoves))
    IN  IF validMoves = <<>> THEN noMove
        ELSE orElse(IF random.win THEN winning ELSE skipped,
             orElse(IF random.block THEN blocking ELSE skipped,
                    randomMove(validMoves, random)))

\* CpuPlayer.getModerateMove
getModerateMove(state, random) ==
    LET validMoves == getValidMoves(state)
        winning == by("findWinningMove", findWinningMove(state, validMoves))
        blocking == by("findBlockingMove", findBlockingMove(state, validMoves))
        strategic == by("findStrategicMove", findStrategicMove(state, validMoves))
        minimaxMove == by("findMinimaxMove", findMinimaxMove(state, validMoves, 2))
    IN  IF validMoves = <<>> THEN noMove
        ELSE orElse(IF random.win THEN winning ELSE skipped,
             orElse(IF random.block THEN blocking ELSE skipped,
             orElse(IF random.strategic THEN strategic ELSE skipped,
             orElse(IF random.minimax THEN minimaxMove ELSE skipped,
                    randomMove(validMoves, random)))))

\* CpuPlayer.getExpertMove
getExpertMove(state, random) ==
    LET validMoves == getValidMoves(state)
    IN  IF validMoves = <<>> THEN noMove
        ELSE orElse(by("findGameWinningMove", findGameWinningMove(state, validMoves)),
             orElse(by("findGameBlockingMove", findGameBlockingMove(state, validMoves)),
             orElse(by("findStrategicWinningMove",
                       findStrategicWinningMove(state, validMoves)),
             orElse(by("findBlockingMove", findBlockingMove(state, validMoves)),
             orElse(by("findMinimaxMove", findMinimaxMove(state, validMoves, 4)),
             orElse(by("findStrategicMove", findStrategicMove(state, validMoves)),
                    randomMove(validMoves, random)))))))

CpuDifficulty == {"easy", "moderate", "expert"}

\* CpuPlayer.getBestMove: the move, and the writes made to the arrays passed.
getBestMove(boards, boardWinners, active, player, rules, difficulty, random) ==
    LET state == [smallBoards   |-> boards,
                  boardWinners  |-> boardWinners,
                  currentPlayer |-> player,
                  activeBoard   |-> active,
                  gameRules     |-> rules,
                  callers       |-> TRUE]
    IN  CASE difficulty = "easy" -> getEasyMove(state, random)
          [] difficulty = "moderate" -> getModerateMove(state, random)
          [] difficulty = "expert" -> getExpertMove(state, random)
          [] OTHER -> getEasyMove(state, random)

\* getCpuMove answering also when the match is over.
getCpuMoveAlways(st, difficulty, random) ==
    getBestMove([b \in Idx |-> to2DArray(st.smallBoards[b])], st.metaBoard,
                st.activeBoard, st.currentPlayer, st.gameRules, difficulty, random)

\* getCpuMove: no move when the match is over, else getBestMove's for the
\* engine's boards, its live meta-board cells and its scalar fields.
getCpuMove(st, difficulty, random) ==
    IF st.winner # null \/ st.isDraw THEN noMove
    ELSE getBestMove([b \in Idx |-> to2DArray(st.smallBoards[b])], st.metaBoard,
                     st.activeBoard, st.currentPlayer, st.gameRules, difficulty, random)

\* The number of cells a later move can still take: none once the match is
\* over, else the empty cells of the small boards that no player has won.
Playable(st) ==
    IF st.winner # null \/ st.isDraw THEN 0
    ELSE Cardinality({bc \in Idx \X Idx :
            st.metaBoard[bc[1]] = null /\ st.smallBoards[bc[1]][bc[2]] = null})

\* Recorded matches: the moves <<boardIndex, cellIndex>> submitted to makeMove
\* from a fresh engine, every one of them accepted.
\* Game1: standard rules; ends in a draw after 54 moves, sub-boards 2 and 7 drawn.
Game1 ==
    << <<3, 1>>, <<1, 8>>, <<8, 8>>, <<8, 1>>, <<1, 7>>, <<7, 3>>, <<3, 4>>, <<4, 2>>,
       <<2, 6>>, <<6, 1>>, <<1, 3>>, <<3, 3>>, <<3, 7>>, <<7, 1>>, <<1, 5>>, <<5, 8>>,
       <<8, 5>>, <<5, 0>>, <<0, 3>>, <<4, 6>>, <<6, 6>>, <<6, 2>>, <<2, 3>>, <<7, 8>>,
       <<8, 2>>, <<2, 7>>, <<7, 6>>, <<6, 4>>, <<4, 1>>, <<1, 6>>, <<6, 3>>, <<0, 7>>,
       <<7, 5>>, <<5, 1>>, <<1, 4>>, <<4, 7>>, <<7, 4>>, <<4, 0>>, <<0, 4>>, <<4, 3>>,
       <<2, 1>>, <<5, 4>>, <<6, 7>>, <<7, 2>>, <<2, 2>>, <<2, 0>>, <<0, 5>>, <<6, 8>>,
       <<7, 0>>, <<6, 0>>, <<2, 8>>, <<2, 4>>, <<7, 7>>, <<2, 5>> >>

\* Game2: standard rules; X wins with move 43, in sub-board 4, owning sub-boards 0 and 8.
Game2 ==
    << <<1, 2>>, <<2, 3>>, <<3, 6>>, <<6, 4>>, <<4, 5>>, <<5, 8>>, <<8, 2>>, <<2, 6>>,
       <<6, 5>>, <<5, 3>>, <<3, 5>>, <<5, 2>>, <<2, 2>>, <<2, 0>>, <<0, 6>>, <<6, 1>>,
       <<1, 3>>, <<3, 7>>, <<7, 5>>, <<5, 6>>, <<6, 0>>, <<0, 4>>, <<4, 1>>, <<1, 0>>,
       <<0, 3>>, <<3, 8>>, <<8, 4>>, <<4, 8>>, <<8, 1>>, <<1, 7>>, <<7, 3>>, <<3, 4>>,
       <<4, 7>>, <<7, 1>>, <<1, 5>>, <<5, 0>>, <<0, 2>>, <<7, 8>>, <<8, 7>>, <<7, 2>>,
       <<0, 0>>, <<7, 4>>, <<4, 4>> >>

\* Game3: standard rules; O wins with move 42, sub-board 0 drawn.
Game3 ==
    << <<0, 3>>, <<3, 7>>, <<7, 0>>, <<0, 2>>, <<2, 7>>, <<7, 8>>, <<8, 0>>, <<0, 7>>,
       <<7, 6>>, <<6, 8>>, <<8, 4>>, <<4, 8>>, <<8, 8>>, <<4, 7>>, <<7, 1>>, <<1, 4>>,
       <<4, 0>>, <<0, 0>>, <<0, 6>>, <<6, 3>>, <<3, 6>>, <<6, 0>>, <<0, 1>>, <<1, 6>>,
       <<6, 4>>, <<4, 6>>, <<6, 2>>, <<2, 0>>, <<0, 4>>, <<7, 5>>, <<5, 1>>, <<1, 8>>,
       <<2, 1>>, <<1, 0>>, <<0, 8>>, <<2, 5>>, <<5, 0>>, <<0, 5>>, <<5, 7>>, <<7, 4>>,
       <<7, 7>>, <<7, 3>> >>

\* Game4: free-play rules; X wins with move 49, sub-board 1 drawn.
Game4 ==
    << <<0, 4>>, <<4, 0>>, <<7, 1>>, <<4, 2>>, <<5, 1>>, <<2, 6>>, <<1, 2>>, <<2, 8>>,
       <<5, 2>>, <<3, 5>>, <<1, 4>>, <<1, 6>>, <<5, 0>>, <<8, 6>>, <<1, 3>>, <<8, 4>>,
       <<0, 1>>, <<0, 0>>, <<6, 5>>, <<0, 6>>, <<0, 7>>, <<7, 3>>, <<6, 7>>, <<3, 1>>,
       <<6, 2>>, <<4, 1>>, <<8, 0>>, <<2, 5>>, <<6, 6>>, <<7, 2>>, <<6, 4>>, <<1, 5>>,
       <<3, 8>>, <<8, 2>>, <<7, 8>>, <<3, 2>>, <<1, 7>>, <<1, 8>>, <<2, 1>>, <<2, 0>>,
       <<7, 7>>, <<2, 3>>, <<3, 7>>, <<7, 6>>, <<3, 0>>, <<1, 1>>, <<1, 0>>, <<7, 4>>,
       <<3, 6>> >>

\* A fresh engine after setGameRules('free-play').
FreshFreePlay == setGameRules(Fresh, "free-play")

\* The engine after moves from..to of a recorded match are made in state st.
RECURSIVE Play(_, _, _, _)
Play(st, ms, from, to) ==
    IF to < from THEN st
    ELSE makeMove(Play(st, ms, from, to - 1), ms[to][1], ms[to][2])

\* States of the recorded matches (GameNAtK: match N after K moves).
Game1At16 == Play(Fresh, Game1, 1, 16)

Game1At32 == Play(Game1At16, Game1, 17, 32)

Game1At40 == Play(Game1At32, Game1, 33, 40)

Game1At48 == Play(Game1At40, Game1, 41, 48)

Game2At14 == Play(Fresh, Game2, 1, 14)

Game2At28 == Play(Game2At14, Game2, 15, 28)

Game2At42 == Play(Game2At28, Game2, 29, 42)

Game3At14 == Play(Fresh, Game3, 1, 14)

Game3At28 == Play(Game3At14, Game3, 15, 28)

Game3At41 == Play(Game3At28, Game3, 29, 41)

Game4At16 == Play(FreshFreePlay, Game4, 1, 16)

Game4At32 == Play(Game4At16, Game4, 17, 32)

Game4At40 == Play(Game4At32, Game4, 33, 40)

Game4At46 == Play(Game4At40, Game4, 41, 46)

\* The states that saveState wrote and a later createGameState(loadGameState())
\* restores.
Saved ==
    {Game1At16, Game1At32, Game1At40, Game1At48,
     Game2At14, Game2At28, Game2At42, Game3At14,
     Game3At28, Game3At41, Game4At32,
     Game4At40, Game4At46}

VARIABLES smallBoards, metaBoard, currentPlayer, activeBoard, winner, isDraw,
          lastMove, gameRules, call, ops, gameState,
          gameMode, isCpuThinking, isFirstMove, timeouts,
          players, pages, conns

engine == <<smallBoards, metaBoard, currentPlayer, activeBoard, winner, isDraw,
            lastMove, gameRules>>

\* The page's part in a turn of the CPU: the engine's gameMode, the page's
\* isCpuThinking and isFirstMove, and the timers that are waiting (timeouts),
\* in the order of the calls of setTimeout and setInterval that made them:
\* "handleCpuTurn" and "handleTimeUp" are the callbacks these functions have
\* passed to setTimeout, "timerInterval" is the interval of startTurnTimer.
cpuTurn == <<gameMode, isCpuThinking, isFirstMove, timeouts>>

\* An online match: the OnlinePlayer object and the page of every peer, and
\* the data connections between the peers.
online == <<players, pages, conns>>

vars == <<smallBoards, metaBoard, currentPlayer, activeBoard, winner, isDraw,
          lastMove, gameRules, call, ops, gameState,
          gameMode, isCpuThinking, isFirstMove, timeouts,
          players, pages, conns>>

\* The engine's fields as one record (what getState reads).
State ==
    [smallBoards   |-> smallBoards,
     metaBoard     |-> metaBoard,
     currentPlayer |-> currentPlayer,
     activeBoard   |-> activeBoard,
     winner        |-> winner,
     isDraw        |-> isDraw,
     lastMove      |-> lastMove,
     gameRules     |-> gameRules]

Becomes(st) ==
    /\ smallBoards' = st.smallBoards
    /\ metaBoard' = st.metaBoard
    /\ currentPlayer' = st.currentPlayer
    /\ activeBoard' = st.activeBoard
    /\ winner' = st.winner
    /\ isDraw' = st.isDraw
    /\ lastMove' = st.lastMove
    /\ gameRules' = st.gameRules

\* The members of the object getState returns that are arrays of the engine
\* itself, not copies: boardWinners is metaBoard.cells.
getStateShares == {"boardWinners"}

\* A snapshot that a caller of getState holds (gameState, None when no caller
\* holds one) while the engine becomes st: a member that is the engine's own
\* array shows the engine's writes to it, as long as the engine keeps that
\* array (sameArrays: resetGame and createGameState make new ones).
Held(st, sameArrays) ==
    gameState' =
        IF gameState # None /\ sameArrays /\ "boardWinners" \in getStateShares
        THEN Some([gameState[1] EXCEPT !.boardWinners = st.metaBoard])
        ELSE gameState

\* The page before a turn of the CPU: no callback is waiting.
Page(mode) ==
    /\ gameMode = mode
    /\ isCpuThinking = FALSE
    /\ isFirstMove = TRUE
    /\ timeouts = <<>>

\* The browsers of an online match: the one that hosts a game, the one that
\* joins it, and a third one that connects while they play.
OnlinePeers == {"host", "guest", "third"}

\* The data connections that are made in one session.
MaxConns == 2

Conns == 1 .. MaxConns

\* The two ends of a data connection: the end of the peer that called
\* peer.connect and the end that the called peer is given with 'connection'.
Sides == {"dialer", "callee"}

otherSide(side) == IF side = "dialer" THEN "callee" ELSE "dialer"

\* A data connection nobody has made yet.  state is "dialed" after
\* peer.connect, "offered" once the called peer has had its 'connection'
\* event; live tells the ends that are not closed; open is conn.open at each
\* end; setup tells the
\* ends where setupConnection has registered its handlers; full is the 'open'
\* handler that sends 'game-full'; closeTimer is its setTimeout; inbox holds
\* the messages sent to an end and not delivered yet; closeEvent is a 'close'
\* event an end has yet to handle.
NoConn ==
    [dialer     |-> "none",
     callee     |-> "none",
     state      |-> "unused",
     live       |-> [s \in Sides |-> FALSE],
     open       |-> [s \in Sides |-> FALSE],
     setup      |-> [s \in Sides |-> FALSE],
     full       |-> FALSE,
     closeTimer |-> FALSE,
     inbox      |-> [s \in Sides |-> <<>>],
     closeEvent |-> [s \in Sides |-> FALSE]]

\* new OnlinePlayer(callbacks): peer tells whether this.peer is a live Peer.
NewOnlinePlayer ==
    [peer             |-> FALSE,
     role             |-> null,
     localPlayer      |-> null,
     connection       |-> None,
     currentGameRules |-> null]

\* The page of a player who has chosen the online mode and the rules rules:
\* game is its engine, onlinePlayer tells whether the page's onlinePlayer is
\* set, timerInterval whether the interval of the turn timer runs.
NewPage(rules) ==
    [game             |-> setGameRules(Fresh, rules),
     gameRules        |-> rules,
     gameMode         |-> "online-multiplayer",
     onlinePlayer     |-> FALSE,
     connectionStatus |-> "disconnected",
     timerInterval    |-> FALSE]

\* No online match: the state of the peers in the sessions that play on one
\* page.
Offline ==
    /\ players = [p \in OnlinePeers |-> NewOnlinePlayer]
    /\ pages = [p \in OnlinePeers |-> NewPage("standard")]
    /\ conns = [c \in Conns |-> NoConn]

\* createGameState(initialState): a fresh engine, or one restored from a state
\* saved during a recorded match.
Init ==
    \E st \in {Fresh} \cup Saved :
        /\ smallBoards = st.smallBoards
        /\ metaBoard = st.metaBoard
        /\ currentPlayer = st.currentPlayer
        /\ activeBoard = st.activeBoard
        /\ winner = st.winner
        /\ isDraw = st.isDraw
        /\ lastMove = st.lastMove
        /\ gameRules = st.gameRules
        /\ call = [op |-> "createGameState", ret |-> "L404"]
        /\ ops = 0
        /\ gameState = None
        /\ Page("human-vs-human")
        /\ Offline

\* A position with more than MaxOpen playable cells.
Wide(st) == Playable(st) > MaxOpen

\* An operation that leaves or enters a wide position takes one of the
\* session's MaxOps; a rejected move takes none.
Counted(after) ==
    LET counts == after # State /\ (Wide(State) \/ Wide(after))
    IN  /\ counts => ops < MaxOps
        /\ ops' = IF counts THEN ops + 1 ELSE ops

\* A call of makeMove(boardIndex, cellIndex).
MakeMove(boardIndex, cellIndex) ==
    LET after == makeMove(State, boardIndex, cellIndex)
    IN  /\ Counted(after)
        /\ Becomes(after)
        /\ Held(after, TRUE)
        /\ UNCHANGED <<cpuTurn, online>>
        /\ call' = [op |-> "makeMove",
                    ret |-> makeMoveReturn(State, boardIndex, cellIndex)]

\* handleTimeUp: the turn timer has run out and the handler calls
\* game.makeMove(-1, -1); the TypeError ends the handler.
HandleTimeUp ==
    LET after == makeMove(State, PassIndex, PassIndex)
    IN  /\ Counted(after)
        /\ Becomes(after)
        /\ Held(after, TRUE)
        /\ UNCHANGED <<cpuTurn, online>>
        /\ call' = [op |-> "handleTimeUp",
                    ret |-> makeMoveReturn(State, PassIndex, PassIndex)]

\* A call of setGameRules(rules).
SetGameRules(rules) ==
    LET after == setGameRules(State, rules)
    IN  /\ Counted(after)
        /\ Becomes(after)
        /\ Held(after, TRUE)
        /\ UNCHANGED <<cpuTurn, online>>
        /\ call' = [op |-> "setGameRules", ret |-> "L290"]

\* A call of resetGame(options).
ResetGame(rules) ==
    LET after == resetGame(State, rules)
    IN  /\ Counted(after)
        /\ Becomes(after)
        /\ Held(after, FALSE)
        /\ UNCHANGED <<cpuTurn, online>>
        /\ call' = [op |-> "resetGame", ret |-> "L370", rules |-> rules]

Next ==
    \/ \E boardIndex \in Idx, cellIndex \in Idx : MakeMove(boardIndex, cellIndex)
    \/ HandleTimeUp
    \/ \E rules \in GameRules : SetGameRules(rules)
    \/ \E rules \in {None} \cup {Some(r) : r \in GameRules} : ResetGame(rules)

Spec == Init /\ [][Next]_vars

\* A match against the CPU (gameMode 'human-vs-cpu', which this model does not
\* hold as a variable): the states of recorded matches that createGameState
\* restores, two of them endgames and one in the middle of a match with O, the
\* CPU, to move.
Game2At31 == Play(Game2At28, Game2, 29, 31)

CpuSaved == {Game1At48, Game4At46, Game2At31}

InitCpu ==
    \E st \in CpuSaved :
        /\ smallBoards = st.smallBoards
        /\ metaBoard = st.metaBoard
        /\ currentPlayer = st.currentPlayer
        /\ activeBoard = st.activeBoard
        /\ winner = st.winner
        /\ isDraw = st.isDraw
        /\ lastMove = st.lastMove
        /\ gameRules = st.gameRules
        /\ call = [op |-> "createGameState", ret |-> "L404"]
        /\ ops = 0
        /\ gameState = None
        /\ Page("human-vs-cpu")
        /\ Offline

\* makeCpuMoveIfNeeded without the test that it is O's turn.
cpuMoveNeededAnyTurn(st, mode) ==
    /\ mode = "human-vs-cpu"
    /\ st.winner = null
    /\ ~st.isDraw

\* The test of makeCpuMoveIfNeeded: the game mode is human-vs-cpu, the
\* current player is O (the CPU plays as O) and the game is not over.
cpuMoveNeeded(st, mode) ==
    /\ mode = "human-vs-cpu"
    /\ st.currentPlayer = "O"
    /\ st.winner = null
    /\ ~st.isDraw

\* A call of makeCpuMoveIfNeeded(), cpuDifficulty being difficulty, as the
\* engine sees it: in a human-vs-cpu match, when it is O's turn and the match
\* is not over, getCpuMove
\* is asked for a move and the move is made with makeMove; else the call
\* returns false.  The index of the random move is drawn when the cascade
\* comes to its last step (first is the call with index 0, and only the random
\* move of the last step depends on the index); in a wide position
\* the call is made only while the session has operations left.  By C17
\* getBestMove writes to none of the arrays it is given, so the engine's
\* meta-board is as before when makeMove runs.
MakeCpuMoveIfNeededCall(difficulty) ==
    IF cpuMoveNeeded(State, gameMode)
    THEN /\ Wide(State) => ops < MaxOps
         /\ \E tests \in RandomTests(difficulty) :
            \E first \in {getCpuMove(State, difficulty, outcomes(tests, 0))} :
            \E index \in IF first.by = "random"
                         THEN RandomIndexes(cpuBoardState(State))
                         ELSE {0} :
            \E cpuMove \in {[first EXCEPT !.move =
                                IF first.by = "random"
                                THEN randomMove(getValidMoves(cpuBoardState(State)),
                                                outcomes(tests, index)).move
                                ELSE @]} :
                LET after == IF cpuMove.move # None
                             THEN makeMove(State, cpuMove.move[1].boardIndex,
                                           cpuMove.move[1].cellIndex)
                             ELSE State
                IN  /\ Counted(after)
                    /\ Becomes(after)
                    /\ Held(after, TRUE)
                    /\ UNCHANGED online
                    /\ call' = [op         |-> "makeCpuMoveIfNeeded",
                                ret        |-> cpuMove.move # None,
                                difficulty |-> difficulty,
                                cpuMove    |-> cpuMove]
    ELSE /\ UNCHANGED <<engine, ops, gameState, online>>
         /\ call' = [op |-> "makeCpuMoveIfNeeded", ret |-> FALSE]

\* A call of makeCpuMoveIfNeeded() that leaves the page as it is.
MakeCpuMoveIfNeeded(difficulty) ==
    /\ MakeCpuMoveIfNeededCall(difficulty)
    /\ UNCHANGED cpuTurn

NextCpu ==
    \/ \E boardIndex \in Idx, cellIndex \in Idx : MakeMove(boardIndex, cellIndex)
    \/ \E difficulty \in CpuDifficulty : MakeCpuMoveIfNeeded(difficulty)

SpecCpu == InitCpu /\ [][NextCpu]_vars

\* A player submits a move that checkValidMove accepts.
LegalMove ==
    \E boardIndex \in Idx, cellIndex \in Idx :
        /\ checkValidMove(State, boardIndex, cellIndex)
        /\ MakeMove(boardIndex, cellIndex)

\* A match in which the players keep submitting legal moves, among changes
\* of the rules.
NextPlay ==
    \/ LegalMove
    \/ \E rules \in GameRules : SetGameRules(rules)

\* LegalMove is enabled: some move is valid, and in a wide position the
\* session has an operation left.
CanMove ==
    /\ Wide(State) => ops < MaxOps
    /\ \E boardIndex \in Idx, cellIndex \in Idx :
          checkValidMove(State, boardIndex, cellIndex)

\* The players keep submitting legal moves: weak fairness of LegalMove,
\* WF_vars(LegalMove), with ENABLED <<LegalMove>>_vars written out as CanMove.
KeepMoving == []<>(~CanMove) \/ []<><<LegalMove>>_vars

SpecPlay == Init /\ [][NextPlay]_vars /\ KeepMoving

\* A match against the CPU in which the page also changes the rules
\* (setGameRules) and starts the match afresh (resetGame).
NextMatch ==
    \/ \E boardIndex \in Idx, cellIndex \in Idx : MakeMove(boardIndex, cellIndex)
    \/ \E difficulty \in CpuDifficulty : MakeCpuMoveIfNeeded(difficulty)
    \/ \E rules \in GameRules : SetGameRules(rules)
    \/ \E rules \in {None} \cup {Some(r) : r \in GameRules} : ResetGame(rules)

SpecMatch == InitCpu /\ [][NextMatch]_vars

-----------------------------------------------------------------------------
(* The page in a match against the CPU (src/unnamed/part_003): the clicks,
   the turn timer and the callback of handleCpuTurn. *)

\* Timers that may wait at one time.
MaxTimeouts == 3

\* The game modes of a page that is not in an online match.
OfflineModes == {"human-vs-human", "human-vs-cpu"}

\* clearTurnTimer(): the interval is cleared.
clearTimerInterval(waiting) ==
    SelectSeq(waiting, LAMBDA t : t # "timerInterval")

\* startTurnTimer(): the interval is cleared, and a new one is made unless
\* the first move of the game is still to come.
startTimerInterval(waiting, firstMove) ==
    IF firstMove THEN clearTimerInterval(waiting)
    ELSE Append(clearTimerInterval(waiting), "timerInterval")

\* The timers that wait when the one at place i has fired.
fired(waiting, i) ==
    SubSeq(waiting, 1, i - 1) \o SubSeq(waiting, i + 1, Len(waiting))

\* The timer at place i may be the next one to fire.  handleTimeUp waits 500
\* ms and handleCpuTurn 500 to 1500 ms, so that a callback of handleTimeUp
\* runs before every callback passed to setTimeout after it; the interval
\* calls handleTimeUp after TURN_TIME_LIMIT = 20 seconds, when every callback
\* that waited at its start, and every callback these have made, has run.
mayFire(waiting, i) ==
    IF waiting[i] = "timerInterval" THEN Len(waiting) = 1
    ELSE \A j \in 1 .. (i - 1) : waiting[j] # "handleTimeUp"

\* onMount has made the engine from a saved match against the CPU and, when
\* it is O's turn, has set isCpuThinking and passed the callback that makes
\* the CPU's move to setTimeout; startTurnTimer has made no interval, the
\* first move of the page being still to come.
InitCpuTurn ==
    \E st \in CpuSaved :
        /\ smallBoards = st.smallBoards
        /\ metaBoard = st.metaBoard
        /\ currentPlayer = st.currentPlayer
        /\ activeBoard = st.activeBoard
        /\ winner = st.winner
        /\ isDraw = st.isDraw
        /\ lastMove = st.lastMove
        /\ gameRules = st.gameRules
        /\ call = [op |-> "createGameState", ret |-> "L404"]
        /\ ops = 0
        /\ gameState = None
        /\ gameMode = "human-vs-cpu"
        /\ isCpuThinking = (st.currentPlayer = "O")
        /\ isFirstMove = TRUE
        /\ timeouts = IF st.currentPlayer = "O" THEN <<"handleCpuTurn">>
                      ELSE <<>>
        /\ Offline

\* handleCellClick(boardIndex, cellIndex) on a page that is not in an online
\* match and has applied its settings (the page's gameMode and gameRules are
\* the engine's): the click is ignored while isCpuThinking; else the timer is
\* cleared, the move is made, and unless the game has just been won the
\* timer is started in a match of two humans and handleCpuTurn is called in
\* a match against the CPU when it is O's turn.
HandleCellClickOffline(boardIndex, cellIndex) ==
    IF isCpuThinking
    THEN /\ UNCHANGED <<engine, ops, gameState, cpuTurn, online>>
         /\ call' = [op |-> "handleCellClick", ret |-> "L477"]
    ELSE LET after == makeMove(State, boardIndex, cellIndex)
             cleared == clearTimerInterval(timeouts)
             timed == IF /\ after.winner = null
                         /\ gameMode = "human-vs-human"
                         /\ ~after.isDraw
                      THEN startTimerInterval(cleared, FALSE)
                      ELSE cleared
             cpuTurns == /\ after.winner = null
                         /\ gameMode = "human-vs-cpu"
                         /\ after.currentPlayer = "O"
         IN  /\ Counted(after)
             /\ Becomes(after)
             /\ Held(after, TRUE)
             /\ gameMode' = gameMode
             /\ isFirstMove' = FALSE
             /\ isCpuThinking' = cpuTurns
             /\ timeouts' = IF cpuTurns THEN Append(timed, "handleCpuTurn")
                            ELSE timed
             /\ Len(timeouts') <= MaxTimeouts
             /\ UNCHANGED online
             /\ call' = [op  |-> "handleCellClick",
                         ret |-> makeMoveReturn(State, boardIndex, cellIndex)]

\* The callback that handleCpuTurn has passed to setTimeout runs:
\* makeCpuMoveIfNeeded is called, isCpuThinking is cleared, and the timer is
\* started unless the game is over.
HandleCpuTurnCallback(difficulty) ==
    \E i \in 1 .. Len(timeouts) :
        /\ timeouts[i] = "handleCpuTurn"
        /\ mayFire(timeouts, i)
        /\ MakeCpuMoveIfNeededCall(difficulty)
        /\ gameMode' = gameMode
        /\ isFirstMove' = isFirstMove
        /\ isCpuThinking' = FALSE
        /\ timeouts' = IF winner' = null /\ ~isDraw'
                       THEN startTimerInterval(fired(timeouts, i), isFirstMove)
                       ELSE fired(timeouts, i)

\* The interval of startTurnTimer finds the time run out and calls
\* handleTimeUp(), which clears the timer and passes its callback to
\* setTimeout.
HandleTimeUpOffline ==
    \E i \in 1 .. Len(timeouts) :
        /\ timeouts[i] = "timerInterval"
        /\ mayFire(timeouts, i)
        /\ timeouts' = Append(clearTimerInterval(timeouts), "handleTimeUp")
        /\ UNCHANGED <<engine, ops, gameState, online, gameMode, isCpuThinking,
                       isFirstMove>>
        /\ call' = [op |-> "handleTimeUp", ret |-> "L822"]

\* The callback of handleTimeUp runs: in
\* a match against the CPU and on X's turn game.makeMove(-1, -1) is called and
\* then handleCpuTurn(); in a match of two humans game.makeMove(-1, -1) and
\* then startTurnTimer().  A TypeError of makeMove ends the callback.
HandleTimeUpCallback ==
    \E i \in 1 .. Len(timeouts) :
        /\ timeouts[i] = "handleTimeUp"
        /\ mayFire(timeouts, i)
        /\ LET mode == gameMode
               passes == \/ mode = "human-vs-cpu" /\ currentPlayer = "X"
                         \/ mode = "human-vs-human"
               after == IF passes THEN makeMove(State, PassIndex, PassIndex)
                        ELSE State
               ret == IF passes
                      THEN makeMoveReturn(State, PassIndex, PassIndex)
                      ELSE "L819"
               goesOn == passes /\ ret # "TypeError"
           IN  /\ Counted(after)
               /\ Becomes(after)
               /\ Held(after, TRUE)
               /\ gameMode' = gameMode
               /\ isFirstMove' = isFirstMove
               /\ isCpuThinking' = IF goesOn /\ mode = "human-vs-cpu" THEN TRUE
                                   ELSE isCpuThinking
               /\ timeouts' =
                      IF goesOn /\ mode = "human-vs-cpu"
                      THEN Append(fired(timeouts, i), "handleCpuTurn")
                      ELSE IF goesOn
                      THEN startTimerInterval(fired(timeouts, i), isFirstMove)
                      ELSE fired(timeouts, i)
               /\ UNCHANGED online
               /\ call' = [op |-> "handleTimeUpCallback", ret |-> ret]

\* The page's resetGame(): game.resetGame({rules, mode}) with the page's
\* gameRules and gameMode, isFirstMove = true and clearTurnTimer();
\* isCpuThinking and the callbacks passed to setTimeout stay.
ResetGameOffline ==
    LET rules == gameRules
        mode == gameMode
        after == resetGame(State, Some(rules))
    IN  /\ Counted(after)
        /\ Becomes(after)
        /\ Held(after, FALSE)
        /\ gameMode' = mode
        /\ isFirstMove' = TRUE
        /\ isCpuThinking' = isCpuThinking
        /\ timeouts' = clearTimerInterval(timeouts)
        /\ UNCHANGED online
        /\ call' = [op |-> "resetGame", ret |-> "L370", rules |-> Some(rules)]

\* The player chooses the game mode mode, and applySettings() calls
\* game.setGameRules(gameRules) and game.setGameMode(gameMode).
ApplySettings(mode) ==
    LET rules == gameRules
        after == setGameRules(State, rules)
    IN  /\ Counted(after)
        /\ Becomes(after)
        /\ Held(after, TRUE)
        /\ gameMode' = mode
        /\ UNCHANGED <<isCpuThinking, isFirstMove, timeouts, online>>
        /\ call' = [op |-> "applySettings", ret |-> "L590"]

NextCpuTurn ==
    \/ \E boardIndex \in Idx, cellIndex \in Idx :
          HandleCellClickOffline(boardIndex, cellIndex)
    \/ \E difficulty \in CpuDifficulty : HandleCpuTurnCallback(difficulty)
    \/ HandleTimeUpOffline
    \/ HandleTimeUpCallback
    \/ ResetGameOffline
    \/ \E mode \in OfflineModes : ApplySettings(mode)

SpecCpuTurn == InitCpuTurn /\ [][NextCpuTurn]_vars

\* The page restoring a match: the component's script has made a fresh engine
\* (let game = createGameState()), and onMount replaces it with
\* createGameState(loadGameState() || undefined), from whatever text
\* localStorage holds under STORAGE_KEY.
\* The text of an object without one of its members.
without(text, name) == [m \in DOMAIN text \ {name} |-> text[m]]

\* The text in localStorage: the one saveGameState wrote for the state
\* ("saved"), or one that no saveGameState wrote: a text that is no JSON, the
\* saved text without its boards or without its boardWinners, or with an
\* activeBoard that is no index of a board.
StoredKinds ==
    {"saved", "syntaxError", "noBoards", "noBoardWinners", "activeBoardOutOfRange"}

storedText(st, kind) ==
    CASE kind = "saved" -> jsonStringify(getState(st))
      [] kind = "syntaxError" -> SyntaxError
      [] kind = "noBoards" -> without(jsonStringify(getState(st)), "boards")
      [] kind = "noBoardWinners" -> without(jsonStringify(getState(st)), "boardWinners")
      [] kind = "activeBoardOutOfRange" ->
            [jsonStringify(getState(st)) EXCEPT !.activeBoard = <<NumCells>>]

\* The states whose texts are in localStorage.
StoredStates == {Game1At48, Game3At41}

InitLoad ==
    /\ smallBoards = Fresh.smallBoards
    /\ metaBoard = Fresh.metaBoard
    /\ currentPlayer = Fresh.currentPlayer
    /\ activeBoard = Fresh.activeBoard
    /\ winner = Fresh.winner
    /\ isDraw = Fresh.isDraw
    /\ lastMove = Fresh.lastMove
    /\ gameRules = Fresh.gameRules
    /\ call = [op |-> "createGameState", ret |-> "L404"]
    /\ ops = 0
    /\ gameState = None
    /\ Page("human-vs-human")
    /\ Offline

\* game = createGameState(loadGameState() || undefined) with item in
\* localStorage: when createGameState throws, the assignment is not made and
\* game stays the engine it was.
Restore(item, kind) ==
    /\ call.op = "createGameState"
    /\ \E savedState \in {loadGameState(item)} :
          LET ret == createGameStateReturn(savedState)
              after == IF ret = "TypeError" THEN State
                       ELSE createGameState(savedState)
          IN  /\ Becomes(after)
              /\ Held(after, FALSE)
              /\ UNCHANGED <<cpuTurn, online>>
              /\ ops' = ops
              /\ call' = [op         |-> "loadGameState",
                          ret        |-> ret,
                          kind       |-> kind,
                          savedState |-> savedState]

NextLoad ==
    \/ Restore(None, "none")
    \/ \E st \in StoredStates, kind \in StoredKinds :
          Restore(Some(storedText(st, kind)), kind)
    \/ \E boardIndex \in Idx, cellIndex \in Idx : MakeMove(boardIndex, cellIndex)

SpecLoad == InitLoad /\ [][NextLoad]_vars

\* A caller that keeps an object getState returned while the match goes on
\* (the page keeps the last one in gameState).  The model follows one such
\* object, taken at any point of the match.
GetState ==
    /\ gameState = None
    /\ gameState' = Some(getState(State))
    /\ UNCHANGED <<engine, ops, cpuTurn, online>>
    /\ call' = [op |-> "getState", ret |-> "L387"]

NextSnapshot ==
    \/ GetState
    \/ \E boardIndex \in Idx, cellIndex \in Idx : MakeMove(boardIndex, cellIndex)

SpecSnapshot == Init /\ [][NextSnapshot]_vars

-----------------------------------------------------------------------------
(* An online match: OnlinePlayer, the page's online handlers and the data
   connections of PeerJS. *)

\* The OnlinePlayer objects, the pages and the connections as one value, on
\* which the handlers below work.
World == [players |-> players, pages |-> pages, conns |-> conns]

OnlineBecomes(w) ==
    /\ players' = w.players
    /\ pages' = w.pages
    /\ conns' = w.conns

\* The messages of MultiplayerMessage that the page sends.
StatusMessage(status) == [type |-> "status", status |-> status]

MoveMessage(boardIndex, cellIndex, player) ==
    [type |-> "move", boardIndex |-> boardIndex, cellIndex |-> cellIndex,
     player |-> player]

SettingsMessage(rules) == [type |-> "settings", gameRules |-> rules]

\* The end of connection c that peer p holds, and the peer that holds an end.
sideOf(w, c, p) == IF w.conns[c].dialer = p THEN "dialer" ELSE "callee"

ownerOf(w, c, side) ==
    IF side = "dialer" THEN w.conns[c].dialer ELSE w.conns[c].callee

\* conn.send(message) at one end of c: the message is on its way to the other
\* end, unless that end is closed.
connSend(w, c, side, message) ==
    IF w.conns[c].live[otherSide(side)]
    THEN [w EXCEPT !.conns[c].inbox[otherSide(side)] = Append(@, message)]
    ELSE w

\* this.connection && this.connection.open
connectionOpen(w, p) ==
    /\ w.players[p].connection # None
    /\ w.conns[w.players[p].connection[1]].open[
           sideOf(w, w.players[p].connection[1], p)]

\* sendMessage(message): sent when the connection is open, dropped otherwise.
sendMessage(w, p, message) ==
    IF connectionOpen(w, p)
    THEN connSend(w, w.players[p].connection[1],
                  sideOf(w, w.players[p].connection[1], p), message)
    ELSE w

\* sendMove, sendSettings
sendMove(w, p, boardIndex, cellIndex, player) ==
    sendMessage(w, p, MoveMessage(boardIndex, cellIndex, player))

sendSettings(w, p, rules) == sendMessage(w, p, SettingsMessage(rules))

\* isLocalPlayerTurn(currentPlayer)
isLocalPlayerTurn(w, p, player) == player = w.players[p].localPlayer

\* updateStatus(status) with the page's onStatusChange.
updateStatus(w, p, status) == [w EXCEPT !.pages[p].connectionStatus = status]

\* startTurnTimer() after the first move; before it (isFirstMove) the
\* interval is cleared and not set.
startTurnTimer(w, p) == [w EXCEPT !.pages[p].timerInterval = TRUE]

clearTurnTimer(w, p) == [w EXCEPT !.pages[p].timerInterval = FALSE]

\* The page's onRemoteMove(boardIndex, cellIndex).
onRemoteMove(w, p, boardIndex, cellIndex) ==
    LET made == [w EXCEPT !.pages[p].game = makeMove(@, boardIndex, cellIndex)]
    IN  IF /\ made.pages[p].game.winner = null
           /\ w.pages[p].onlinePlayer
           /\ isLocalPlayerTurn(w, p, made.pages[p].game.currentPlayer)
        THEN startTurnTimer(made, p)
        ELSE made

\* The page's onRemoteSettings(rules).
onRemoteSettings(w, p, rules) ==
    IF w.pages[p].onlinePlayer /\ w.players[p].role = "guest"
    THEN [w EXCEPT !.pages[p].gameRules = rules,
                   !.pages[p].game = setGameRules(@, rules)]
    ELSE w

\* The page's onGameStart().
onGameStart(w, p) ==
    LET ruled == [w EXCEPT !.pages[p].game =
                               setGameRules(@, w.pages[p].gameRules)]
    IN  IF /\ w.pages[p].onlinePlayer
           /\ isLocalPlayerTurn(w, p, w.pages[p].game.currentPlayer)
        THEN clearTurnTimer(ruled, p)
        ELSE ruled

\* The page's onPlayerDisconnect(): the board is kept, the page lets go of its
\* OnlinePlayer.
onPlayerDisconnect(w, p) ==
    IF w.pages[p].connectionStatus = "connected"
    THEN [w EXCEPT !.pages[p].connectionStatus = "disconnected",
                   !.pages[p].onlinePlayer = FALSE]
    ELSE w

\* The 'close' handler that setupConnection registers.
closeHandler(w, p) ==
    [updateStatus(onPlayerDisconnect(w, p), p, "disconnected")
        EXCEPT !.players[p].connection = None]

\* conn.close() at one end of c: the end is closed and its 'close' handler
\* runs; the other end has its 'close' event later, and until then takes the
\* messages that were on their way to it.
close(w, c, side) ==
    IF ~w.conns[c].live[side]
    THEN w
    ELSE LET closed == [w EXCEPT !.conns[c].live[side] = FALSE,
                                 !.conns[c].open[side] = FALSE,
                                 !.conns[c].inbox[side] = <<>>,
                                 !.conns[c].closeEvent[otherSide(side)] =
                                     w.conns[c].live[otherSide(side)]]
         IN  IF w.conns[c].setup[side]
             THEN closeHandler(closed, ownerOf(w, c, side))
             ELSE closed

\* peer.destroy(): every connection of the peer is closed.
RECURSIVE closeAll(_, _, _)
closeAll(w, p, c) ==
    IF c = 0 THEN w
    ELSE closeAll(IF p \in {w.conns[c].dialer, w.conns[c].callee}
                  THEN close(w, c, sideOf(w, c, p))
                  ELSE w,
                  p, c - 1)

peerDestroy(w, p) == [closeAll(w, p, MaxConns) EXCEPT !.players[p].peer = FALSE]

\* this.connection.close(); this.connection = null
closeConnection(w, p) ==
    IF w.players[p].connection # None
    THEN [close(w, w.players[p].connection[1],
                sideOf(w, w.players[p].connection[1], p))
             EXCEPT !.players[p].connection = None]
    ELSE w

\* disconnect()
disconnect(w, p) ==
    LET told == IF connectionOpen(w, p)
                THEN sendMessage(w, p, StatusMessage("forfeit"))
                ELSE w
        closed == closeConnection(told, p)
        gone == IF closed.players[p].peer THEN peerDestroy(closed, p) ELSE closed
    IN  updateStatus([gone EXCEPT !.players[p].role = null,
                                  !.players[p].localPlayer = null],
                     p, "disconnected")

\* handleIncomingMessage(message)
handleIncomingMessage(w, p, message) ==
    IF message.type = "move"
    THEN onRemoteMove(w, p, message.boardIndex, message.cellIndex)
    ELSE IF message.type = "settings"
    THEN onRemoteSettings(w, p, message.gameRules)
    ELSE IF message.type # "status" THEN w
    ELSE IF message.status = "connected"
    THEN IF w.players[p].role = "host"
         THEN onGameStart(sendMessage(w, p, StatusMessage("game-start")), p)
         ELSE w
    ELSE IF message.status = "game-start" THEN onGameStart(w, p)
    ELSE IF message.status = "forfeit" THEN onPlayerDisconnect(w, p)
    ELSE IF message.status = "game-full"
    THEN closeConnection(updateStatus(w, p, "error"), p)
    ELSE w

\* setCurrentGameRules(rules), which the page calls before createGame: the
\* player keeps the rules of its page.
setCurrentGameRules(w, p, rules) ==
    [w EXCEPT !.players[p].currentGameRules = rules]

\* initializeOnlinePlayer(), called when the page has no OnlinePlayer.
initializeOnlinePlayer(w, p) ==
    IF w.pages[p].onlinePlayer THEN w
    ELSE [w EXCEPT !.players[p] = NewOnlinePlayer,
                   !.pages[p].onlinePlayer = TRUE]

\* createGame(): the peer is made with the game code as its id.
createGame(w, p) ==
    LET host == [w EXCEPT !.players[p].role = "host"]
        gone == IF host.players[p].peer THEN peerDestroy(host, p) ELSE host
    IN  updateStatus([gone EXCEPT !.players[p].peer = TRUE], p, "waiting")

\* The page's createOnlineGame().
createOnlineGame(w, p) ==
    LET rules == w.pages[p].gameRules
        made == createGame(
                    updateStatus(
                        setCurrentGameRules(initializeOnlinePlayer(w, p), p, rules),
                        p, "connecting"),
                    p)
    IN  sendSettings(
            [made EXCEPT !.pages[p].game =
                              setGameRules(resetGame(@, Some(rules)), rules)],
            p, rules)

\* joinGame(gameCode) up to the wait for the connection to open: the peer is
\* made anew and connects to the peer with the id gameCode, callee here; c is
\* the connection that peer.connect returns.
joinGame(w, p, callee, c) ==
    LET guest == updateStatus([w EXCEPT !.players[p].role = "guest"],
                              p, "connecting")
        gone == IF guest.players[p].peer THEN peerDestroy(guest, p) ELSE guest
    IN  [gone EXCEPT !.players[p].peer = TRUE,
                     !.conns[c] = [NoConn EXCEPT !.dialer = p,
                                                 !.callee = callee,
                                                 !.state = "dialed",
                                                 !.live = [s \in Sides |-> TRUE]]]

\* joinGame after the connection has opened.
joinGameOpened(w, p, c) ==
    sendMessage(
        updateStatus([w EXCEPT !.conns[c].setup["dialer"] = TRUE,
                               !.players[p].connection = Some(c),
                               !.players[p].localPlayer = "O"],
                     p, "connected"),
        p, StatusMessage("connected"))

\* The page's joinOnlineGame() after joinGame has returned.
joinOnlineGameJoined(w, p) ==
    [w EXCEPT !.pages[p].game =
                  setGameRules(resetGame(@, Some(w.pages[p].gameRules)),
                               w.pages[p].gameRules)]

\* The 'connection' handler without the test for an open connection.
connectionHandlerAlways(w, p, c) ==
    IF w.players[p].role # "host" THEN close(w, c, "callee")
    ELSE updateStatus([w EXCEPT !.conns[c].setup["callee"] = TRUE,
                                !.players[p].connection = Some(c),
                                !.players[p].localPlayer = "X"],
                      p, "connected")

\* The 'connection' handler of the peer: c is the connection it is given.
connectionHandler(w, p, c) ==
    IF w.players[p].role # "host" THEN close(w, c, "callee")
    ELSE IF connectionOpen(w, p) THEN [w EXCEPT !.conns[c].full = TRUE]
    ELSE updateStatus([w EXCEPT !.conns[c].setup["callee"] = TRUE,
                                !.players[p].connection = Some(c),
                                !.players[p].localPlayer = "X"],
                      p, "connected")

\* The 'open' handler that setupConnection registers.
openHandler(w, p) ==
    LET connected == updateStatus(w, p, "connected")
    IN  IF w.players[p].role = "guest"
        THEN sendMessage([connected EXCEPT !.players[p].localPlayer = "O"],
                         p, StatusMessage("connected"))
        ELSE IF w.players[p].role = "host"
        THEN [connected EXCEPT !.players[p].localPlayer = "X"]
        ELSE connected

\* The 'open' handler of a connection that came while another was open.
gameFullHandler(w, c) ==
    [connSend(w, c, "callee", StatusMessage("game-full"))
        EXCEPT !.conns[c].closeTimer = TRUE]

\* The page's handleCellClick(boardIndex, cellIndex), isCpuThinking being
\* false: in an online match the move is made and sent on the local player's
\* turn, when checkValidMove accepts it; else it is made on the page alone.
handleCellClick(w, p, boardIndex, cellIndex) ==
    LET game == w.pages[p].game
    IN  IF w.pages[p].gameMode = "online-multiplayer" /\ w.pages[p].onlinePlayer
        THEN IF ~isLocalPlayerTurn(w, p, game.currentPlayer) THEN w
             ELSE IF ~checkValidMove(game, boardIndex, cellIndex) THEN w
             ELSE sendMove([w EXCEPT !.pages[p].timerInterval = FALSE,
                                     !.pages[p].game =
                                         makeMove(@, boardIndex, cellIndex)],
                           p, boardIndex, cellIndex, w.players[p].localPlayer)
        ELSE LET after == makeMove(game, boardIndex, cellIndex)
             IN  [w EXCEPT !.pages[p].game = after,
                           !.pages[p].timerInterval =
                               /\ w.pages[p].gameMode = "human-vs-human"
                               /\ after.winner = null
                               /\ ~after.isDraw]

\* The callback of handleTimeUp() on a page without a CPU.
handleTimeUp(w, p) ==
    LET cleared == clearTurnTimer(w, p)
    IN  IF w.pages[p].gameMode = "online-multiplayer" /\ w.pages[p].onlinePlayer
        THEN IF isLocalPlayerTurn(w, p, w.pages[p].game.currentPlayer)
             THEN [sendMove(cleared, p, PassIndex, PassIndex,
                            w.players[p].localPlayer)
                      EXCEPT !.pages[p].game = makeMove(@, PassIndex, PassIndex)]
             ELSE cleared
        ELSE IF w.pages[p].gameMode = "human-vs-human"
        THEN [cleared EXCEPT !.pages[p].game = makeMove(@, PassIndex, PassIndex)]
        ELSE cleared

\* The page's disconnectOnlineGame().
disconnectOnlineGame(w, p) ==
    LET left == IF w.pages[p].onlinePlayer
                THEN [disconnect(w, p) EXCEPT !.pages[p].onlinePlayer = FALSE]
                ELSE w
    IN  [left EXCEPT !.pages[p].game =
                         resetGame(@, Some(w.pages[p].gameRules)),
                     !.pages[p].connectionStatus = "disconnected"]

\* The cells a player clicks in an online match.
OnlineCells == {0, 4}

\* The pages that host a game, and the pages that join one with the peers
\* they connect to.
Hosts == {"host"}

Dials == {<<"guest", "host">>, <<"third", "host">>, <<"third", "guest">>}

\* Three players have opened the page, chosen the online mode and, each on
\* their own page, the rules.
InitOnline ==
    /\ smallBoards = Fresh.smallBoards
    /\ metaBoard = Fresh.metaBoard
    /\ currentPlayer = Fresh.currentPlayer
    /\ activeBoard = Fresh.activeBoard
    /\ winner = Fresh.winner
    /\ isDraw = Fresh.isDraw
    /\ lastMove = Fresh.lastMove
    /\ gameRules = Fresh.gameRules
    /\ call = [op |-> "createGameState", ret |-> "L404"]
    /\ ops = 0
    /\ gameState = None
    /\ Page("human-vs-human")
    /\ players = [p \in OnlinePeers |-> NewOnlinePlayer]
    /\ \E hostRules \in GameRules, guestRules \in GameRules :
          pages = [p \in OnlinePeers |->
                      NewPage(IF p = "host" THEN hostRules
                              ELSE IF p = "guest" THEN guestRules
                              ELSE "standard")]
    /\ conns = [c \in Conns |-> NoConn]

\* A step of the online match: the engine of the local page is not in it.
OnlineStep(w) ==
    /\ OnlineBecomes(w)
    /\ UNCHANGED <<engine, call, ops, gameState, cpuTurn>>

\* A player creates a game.
CreateOnlineGame(p) ==
    /\ pages[p].connectionStatus \in {"disconnected", "error"}
    /\ pages[p].onlinePlayer \/ ~players[p].peer
    /\ OnlineStep(createOnlineGame(World, p))

\* A player joins the game of the peer callee, on the first connection that
\* is not in use; the page waits for the connection to open.
JoinOnlineGame(p, callee) ==
    /\ pages[p].connectionStatus \in {"disconnected", "error"}
    /\ pages[p].onlinePlayer \/ ~players[p].peer
    /\ players[callee].peer
    /\ \E c \in Conns :
          /\ conns[c].state = "unused"
          /\ \A d \in 1 .. (c - 1) : conns[d].state # "unused"
          /\ OnlineStep(joinGame(initializeOnlinePlayer(World, p), p, callee, c))

\* The called peer has its 'connection' event.
ConnectionEvent(c) ==
    /\ conns[c].state = "dialed"
    /\ conns[c].live["callee"]
    /\ players[conns[c].callee].peer
    /\ OnlineStep(connectionHandler([World EXCEPT !.conns[c].state = "offered"],
                                    conns[c].callee, c))

\* One end of a connection has its 'open' event: at the end of the joining
\* peer joinGame and joinOnlineGame go on, at the other end the handlers run
\* that the 'connection' handler has registered.
OpenEvent(c, side) ==
    /\ conns[c].state = "offered"
    /\ conns[c].live["dialer"] /\ conns[c].live["callee"]
    /\ ~conns[c].open[side]
    /\ LET p == ownerOf(World, c, side)
           opened == [World EXCEPT !.conns[c].open[side] = TRUE]
           after == IF side = "dialer"
                    THEN joinOnlineGameJoined(joinGameOpened(opened, p, c), p)
                    ELSE LET handled == IF conns[c].setup[side]
                                        THEN openHandler(opened, p)
                                        ELSE opened
                         IN  IF conns[c].full
                             THEN gameFullHandler(handled, c)
                             ELSE handled
       IN  OnlineStep(after)

\* One end of a connection has a 'data' event: the message goes to
\* handleIncomingMessage where setupConnection has registered its handlers.
DataEvent(c, side) ==
    /\ conns[c].open[side]
    /\ conns[c].inbox[side] # <<>>
    /\ LET p == ownerOf(World, c, side)
           message == Head(conns[c].inbox[side])
           taken == [World EXCEPT !.conns[c].inbox[side] = Tail(@)]
       IN  OnlineStep(IF conns[c].setup[side]
                      THEN handleIncomingMessage(taken, p, message)
                      ELSE taken)

\* The timeout of the 'game-full' handler runs: conn.close().
CloseTimeout(c) ==
    /\ conns[c].closeTimer
    /\ OnlineStep(close([World EXCEPT !.conns[c].closeTimer = FALSE], c, "callee"))

\* One end of a connection has the 'close' event of a close at the other end.
CloseEvent(c, side) ==
    /\ conns[c].closeEvent[side]
    /\ OnlineStep(close([World EXCEPT !.conns[c].closeEvent[side] = FALSE],
                        c, side))

\* A player clicks a cell on a page whose OnlinePlayer hosts or has joined a
\* game, and the click is not ignored.
HandleCellClick(p, boardIndex, cellIndex) ==
    /\ players[p].role # null
    /\ handleCellClick(World, p, boardIndex, cellIndex) # World
    /\ OnlineStep(handleCellClick(World, p, boardIndex, cellIndex))

\* The turn timer of a page runs out.
HandleTimeUpOnline(p) ==
    /\ pages[p].timerInterval
    /\ OnlineStep(handleTimeUp(World, p))

\* A player leaves the game.
DisconnectOnlineGame(p) ==
    /\ pages[p].connectionStatus = "connected"
    /\ OnlineStep(disconnectOnlineGame(World, p))

\* A match of the host and the guest.
NextOnline ==
    \/ \E p \in Hosts : CreateOnlineGame(p)
    \/ JoinOnlineGame("guest", "host")
    \/ \E c \in Conns : ConnectionEvent(c)
    \/ \E c \in Conns, side \in Sides : OpenEvent(c, side)
    \/ \E c \in Conns, side \in Sides : DataEvent(c, side)
    \/ \E c \in Conns, side \in Sides : CloseEvent(c, side)
    \/ \E p \in OnlinePeers, boardIndex \in OnlineCells, cellIndex \in OnlineCells :
          HandleCellClick(p, boardIndex, cellIndex)
    \/ \E p \in OnlinePeers : HandleTimeUpOnline(p)
    \/ \E p \in OnlinePeers : DisconnectOnlineGame(p)

SpecOnline == InitOnline /\ [][NextOnline]_vars

\* The connections of three peers, without the moves of a match.
NextPeers ==
    \/ \E p \in Hosts : CreateOnlineGame(p)
    \/ \E dial \in Dials : JoinOnlineGame(dial[1], dial[2])
    \/ \E c \in Conns : ConnectionEvent(c)
    \/ \E c \in Conns, side \in Sides : OpenEvent(c, side)
    \/ \E c \in Conns, side \in Sides : DataEvent(c, side)
    \/ \E c \in Conns : CloseTimeout(c)
    \/ \E c \in Conns, side \in Sides : CloseEvent(c, side)
    \/ \E p \in OnlinePeers : DisconnectOnlineGame(p)

SpecPeers == InitOnline /\ [][NextPeers]_vars

-----------------------------------------------------------------------------
(* Properties of the rules engine. *)

\* The last call was a makeMove that placed a mark.
Accepted == call.op = "makeMove" /\ call.ret = "L267"

\* The last call was a makeMove that returned early.
Rejected == call.op = "makeMove" /\ call.ret # "L267"

InProgress == winner = null /\ ~isDraw

\* Player p holds the three cells of one of the eight lines.
HasLine(cells, p) ==
    \E i \in DOMAIN WIN_PATTERNS :
        \A j \in 1 .. 3 : cells[WIN_PATTERNS[i][j]] = p

\* Small board b is full and holds no line: a tied board.
DrawnBoard(b) ==
    /\ isFull(smallBoards[b])
    /\ ~HasLine(smallBoards[b], "X")
    /\ ~HasLine(smallBoards[b], "O")

\* Small board b is won by a player or tied.
DecidedBoard(b) == metaBoard[b] \in Player \/ DrawnBoard(b)

\* The move that made the last mark.
Last == lastMove[1]

\* C1: in every reachable state and for all indices 0..8, makeMove changes
\* the engine's state exactly when checkValidMove returns true; when it
\* returns false every field is as before the call.
C1_MakeMoveChangesIffValid ==
    \A b \in Idx, c \in Idx :
        /\ checkValidMove(State, b, c) <=> makeMove(State, b, c) # State
        /\ ~checkValidMove(State, b, c) =>
              /\ makeMove(State, b, c).smallBoards = smallBoards
              /\ makeMove(State, b, c).metaBoard = metaBoard
              /\ makeMove(State, b, c).currentPlayer = currentPlayer
              /\ makeMove(State, b, c).activeBoard = activeBoard
              /\ makeMove(State, b, c).winner = winner
              /\ makeMove(State, b, c).isDraw = isDraw
              /\ makeMove(State, b, c).lastMove = lastMove
              /\ makeMove(State, b, c).gameRules = gameRules

\* A move was rejected in a match in progress that has a board already won
\* with an empty cell in it, and another move is still valid.
C1_Witness ==
    /\ Rejected /\ InProgress
    /\ \E b \in Idx, c \in Idx :
          metaBoard[b] # null /\ smallBoards[b][c] = null /\ ~checkValidMove(State, b, c)
    /\ \E b \in Idx, c \in Idx : checkValidMove(State, b, c)

\* C2: winner # null and isDraw = true never hold together, under either
\* rule set, with setGameRules and resetGame interleaved.
C2_WinnerExcludesDraw == ~(winner # null /\ isDraw)

\* A move won the match with no undecided board left: the state in which
\* both terminal conditions are met by the boards, and only winner is set.
C2_Witness ==
    /\ Accepted /\ winner # null /\ ~isDraw
    /\ \A b \in Idx : DecidedBoard(b)

\* C3: once a small board is decided (won, or full with no line), no later
\* makeMove changes its entry in the meta-board or any of its nine cells.
C3_DecidedBoardFrozen ==
    [][\A b \in Idx :
          DecidedBoard(b) /\ call'.op \in {"makeMove", "handleTimeUp"} =>
              /\ smallBoards'[b] = smallBoards[b]
              /\ metaBoard'[b] = metaBoard[b]]_vars

\* A move was accepted while one board was won with an empty cell left and
\* another board was tied.
C3_Witness ==
    /\ Accepted
    /\ \E b \in Idx \ {Last.boardIndex} :
          metaBoard[b] \in Player /\ ~isFull(smallBoards[b])
    /\ \E b \in Idx \ {Last.boardIndex} : DrawnBoard(b)

\* C4: under the standard rules, after a successful makeMove(b, k) the active
\* board is k if small board k, as the move has left it, is neither won nor
\* full, and null if it is won or full.
C4_StandardRouting ==
    Accepted /\ gameRules = "standard" =>
        LET k == Last.cellIndex
        IN  IF metaBoard[k] # null \/ isFull(smallBoards[k])
            THEN activeBoard = None
            ELSE activeBoard = Some(k)

\* A move at cell k of board k decided that board under the standard rules:
\* the next player may play anywhere.
C4_Witness ==
    /\ Accepted /\ gameRules = "standard" /\ InProgress
    /\ Last.boardIndex = Last.cellIndex
    /\ DecidedBoard(Last.cellIndex)
    /\ activeBoard = None

\* The board after X's move (0, 4) in a fresh match.
AfterX04 == [Fresh.smallBoards EXCEPT ![0][4] = "X"]

\* C5: under the standard rules with the active board a, makeMove(b, c) with
\* b # a places no mark and does not switch the turn; after X plays (0, 4) on
\* an empty board the active board is 4 and O's moves elsewhere are rejected.
C5_ActiveBoardEnforced ==
    /\ gameRules = "standard" /\ activeBoard # None =>
          \A b \in Idx \ {activeBoard[1]}, c \in Idx :
              /\ makeMove(State, b, c).smallBoards = smallBoards
              /\ makeMove(State, b, c).currentPlayer = currentPlayer
              /\ makeMove(State, b, c) = State
    /\ smallBoards = AfterX04 /\ gameRules = "standard" /\ call.op = "makeMove" =>
          /\ activeBoard = Some(4)
          /\ currentPlayer = "O"
          /\ \A b \in Idx \ {4}, c \in Idx : makeMove(State, b, c) = State

\* O's move was rejected by the active-board rule after X played (0, 4).
C5_Witness ==
    /\ smallBoards = AfterX04
    /\ call = [op |-> "makeMove", ret |-> "L218"]
    /\ currentPlayer = "O"

\* C6: once the match is won or drawn, every makeMove is rejected and leaves
\* the state as it is; only resetGame leaves the terminal state.
C6_TerminalAbsorbing ==
    [][~InProgress =>
          /\ call'.op \in {"makeMove", "handleTimeUp"} =>
                call'.ret = "L214" /\ engine' = engine
          /\ call'.op # "resetGame" => winner' = winner /\ isDraw' = isDraw]_vars

\* A move was rejected because the match is over.
C6_Witness == call = [op |-> "makeMove", ret |-> "L214"] /\ ~InProgress

\* C7: isDraw is true exactly when every one of the nine small boards is
\* decided and there is no overall winner.
C7_DrawIffAllDecided ==
    isDraw <=> (\A b \in Idx : DecidedBoard(b)) /\ winner = null

\* The match is drawn with a tied board among the decided ones.
C7_Witness == isDraw /\ \E b \in Idx : DrawnBoard(b)

\* C8: a successful move by P that completes a line of P in board b makes
\* boardWinners[b] = P; the winner becomes P exactly when P then holds a line
\* of the meta-board, tied and undecided boards counting for nobody; a move
\* that wins no small board sets no winner.
C8_BoardAndMatchWinner ==
    Accepted =>
        LET P == Last.player
            b == Last.boardIndex
            wins == HasLine(smallBoards[b], P)
        IN  /\ wins => metaBoard[b] = P
            /\ winner = P <=> wins /\ HasLine(metaBoard, P)
            /\ winner \in {null, P}
            /\ ~wins => winner = null /\ metaBoard[b] = null

\* X won the match by winning board 4 while owning boards 0 and 8.
C8_Witness ==
    /\ Accepted /\ winner = "X"
    /\ Last.boardIndex = 4
    /\ metaBoard[0] = "X" /\ metaBoard[4] = "X" /\ metaBoard[8] = "X"

\* The last move filled the last empty cell of its board without a line.
TiedByLastMove == Accepted /\ DrawnBoard(Last.boardIndex)

C10_DrawnBoardExcluded ==
    \A d \in Idx :
        DrawnBoard(d) =>
            /\ activeBoard # Some(d)
            /\ \A c \in Idx : makeMove(State, d, c) = State /\ ~checkValidMove(State, d, c)
            /\ \A i \in DOMAIN getValidMoves(cpuBoardState(State)) :
                  getValidMoves(cpuBoardState(State))[i].boardIndex # d

\* Under the standard rules a move at cell d was made while board d is tied,
\* the match goes on, and getValidMoves has moves to list.
C10_Witness ==
    /\ Accepted /\ InProgress /\ gameRules = "standard"
    /\ DrawnBoard(Last.cellIndex)
    /\ getValidMoves(cpuBoardState(State)) # <<>>

\* The engine that createGameState(loadGameState()) builds from what
\* saveGameState(getState()) wrote.
Reloaded == createGameState(Some(jsonParse(jsonStringify(getState(State)))))

\* C11: the engine built from getState(), directly or through JSON text, has
\* the same snapshot and the same fields as the engine it was taken from, and
\* accepts, rejects and answers every next makeMove as that engine does (so
\* the two pass through the same states under any sequence of moves).
C11_RoundTrip ==
    LET S == State
        snapshot == getState(S)
        direct == createGameState(Some(snapshot))
        reloaded == createGameState(Some(jsonParse(jsonStringify(snapshot))))
    IN  /\ getState(direct) = snapshot
        /\ direct = S
        /\ getState(reloaded) = snapshot
        /\ reloaded = S
        /\ \A b \in Idx, c \in Idx :
              /\ checkValidMove(reloaded, b, c) = checkValidMove(S, b, c)
              /\ makeMoveReturn(reloaded, b, c) = makeMoveReturn(S, b, c)
              /\ makeMove(reloaded, b, c) = makeMove(S, b, c)

\* A snapshot taken after O's accepted move under the standard rules, with an
\* active board, a board won and a valid next move, is restored as it was.
C11_Witness ==
    /\ Accepted /\ InProgress /\ gameRules = "standard"
    /\ currentPlayer = "X" /\ activeBoard # None
    /\ \E b \in Idx : metaBoard[b] # null
    /\ \E b \in Idx, c \in Idx : checkValidMove(Reloaded, b, c)
    /\ Reloaded = State

\* C12 as claimed: the pass move makeMove(-1, -1) in a match in progress
\* switches currentPlayer, sets activeBoard to null and leaves the cells,
\* boardWinners, winner and isDraw as they are; on a fresh match it changes
\* currentPlayer from X to O.
C12_PassSwitchesTurn ==
    [][call'.op = "handleTimeUp" /\ InProgress =>
          /\ currentPlayer' # currentPlayer
          /\ activeBoard' = None
          /\ smallBoards' = smallBoards
          /\ metaBoard' = metaBoard
          /\ winner' = winner
          /\ isDraw' = isDraw
          /\ (State = Fresh => currentPlayer' = "O")]_vars

\* C13: resetGame, from any state, empties the 81 cells and the nine outcomes
\* and sets winner null, isDraw false, lastMove null, activeBoard null and
\* currentPlayer X; gameRules becomes the rules passed, or stays as it is when
\* none are passed.
C13_ResetYieldsInitial ==
    [][call'.op = "resetGame" =>
          /\ \A b \in Idx, c \in Idx : smallBoards'[b][c] = null
          /\ \A b \in Idx : metaBoard'[b] = null
          /\ winner' = null
          /\ isDraw' = FALSE
          /\ lastMove' = None
          /\ activeBoard' = None
          /\ currentPlayer' = "X"
          /\ gameRules' = IF call'.rules = None THEN gameRules
                          ELSE call'.rules[1]]_vars

\* resetGame() without rules was called on an engine under the free-play
\* rules, which it keeps.
C13_Witness ==
    /\ call.op = "resetGame" /\ call.rules = None
    /\ gameRules = "free-play"
    /\ State = FreshFreePlay

\* C14 as claimed: whenever gameRules is free-play, activeBoard is null.
C14_FreePlayAnyBoard == gameRules = "free-play" => activeBoard = None

\* C15: after an accepted makeMove, also the one that ends the match,
\* currentPlayer is the opposite mark of the player who moved; so in a won
\* match currentPlayer is not the winner.
C15_TurnFlipsOnEveryMove ==
    /\ Accepted => currentPlayer # Last.player /\ currentPlayer \in Player
    /\ lastMove # None => currentPlayer # Last.player
    /\ winner # null => currentPlayer # winner

\* The accepted move won the match, and the turn went to the loser.
C15_Witness ==
    /\ Accepted /\ winner # null
    /\ Last.player = winner
    /\ currentPlayer # winner

\* The moves <<boardIndex, cellIndex>> that getValidMoves lists for the
\* engine's state.
Listed ==
    LET moves == getValidMoves(cpuBoardState(State))
    IN  {<<moves[i].boardIndex, moves[i].cellIndex>> : i \in DOMAIN moves}

\* The empty cells of small board b, as moves.
EmptyOf(b) == {<<b, c>> : c \in {c \in Idx : smallBoards[b][c] = null}}

\* C20: in a match in progress, getValidMoves lists exactly the moves for
\* which checkValidMove is true, each once: under the standard rules with an
\* undecided active board the empty cells of that board, otherwise the empty
\* cells of every undecided board.
C20_ValidMovesAgree ==
    InProgress =>
        /\ Listed = {bc \in Idx \X Idx : checkValidMove(State, bc[1], bc[2])}
        /\ Len(getValidMoves(cpuBoardState(State))) = Cardinality(Listed)
        /\ IF /\ gameRules = "standard"
              /\ activeBoard # None
              /\ ~DecidedBoard(activeBoard[1])
           THEN Listed = EmptyOf(activeBoard[1])
           ELSE Listed = UNION {EmptyOf(b) : b \in {d \in Idx : ~DecidedBoard(d)}}

\* The rules were switched to free-play while a board was active: the moves
\* listed are those of several boards, with a tied board left out.
C20_Witness ==
    /\ InProgress /\ call.op = "setGameRules"
    /\ gameRules = "free-play" /\ activeBoard # None
    /\ \E m \in Listed : m[1] # activeBoard[1]
    /\ \E b \in Idx : DrawnBoard(b)


\* The moves for which checkValidMove returns true.
ValidMoves == {bc \in Idx \X Idx : checkValidMove(State, bc[1], bc[2])}

\* C29: in every state reachable by makeMove, setGameRules and resetGame in
\* which winner is null and isDraw is false, checkValidMove returns true for
\* at least one (boardIndex, cellIndex).
C29_SomeMoveIsValid == InProgress => ValidMoves # {}

\* A move has left the match in progress with exactly one valid move, after
\* sending the next player to a decided board (activeBoard is null under the
\* standard rules).
C29_Witness ==
    /\ Accepted /\ InProgress
    /\ gameRules = "standard" /\ activeBoard = None
    /\ Cardinality(ValidMoves) = 1

\* C30: in every state reachable by makeMove, setGameRules and resetGame, if
\* activeBoard is an index a then sub-board a is undecided: boardWinners[a] is
\* null and sub-board a has at least one empty cell.
C30_ActiveBoardUndecided ==
    \A a \in Idx :
        activeBoard = Some(a) =>
            metaBoard[a] = null /\ \E c \in Idx : smallBoards[a][c] = null

\* The rules were changed to free play while activeBoard held an index, with
\* another sub-board already decided.
C30_Witness ==
    /\ call.op = "setGameRules"
    /\ gameRules = "free-play"
    /\ activeBoard # None
    /\ \E b \in Idx : DecidedBoard(b)

\* The result of the 3-in-a-row check on cells that hold a line of at most
\* one player: that player, or null when no line.
LineResult(cells) ==
    IF HasLine(cells, "X") THEN "X"
    ELSE IF HasLine(cells, "O") THEN "O"
    ELSE null

\* C31: the meta-board is consistent with the sub-boards: no sub-board holds
\* a line for both players, boardWinners[i] is the result of the 3-in-a-row
\* check on sub-board i's cells (null when no line), and winner is the result
\* of the 3-in-a-row check on boardWinners.
C31_MetaBoardConsistent ==
    /\ \A i \in Idx :
          /\ ~(HasLine(smallBoards[i], "X") /\ HasLine(smallBoards[i], "O"))
          /\ metaBoard[i] = LineResult(smallBoards[i])
    /\ ~(HasLine(metaBoard, "X") /\ HasLine(metaBoard, "O"))
    /\ winner = LineResult(metaBoard)

\* The last move completed a diagonal of its sub-board, which holds marks of
\* both players, and the match goes on with another sub-board won by the
\* other player.
C31_Witness ==
    /\ Accepted /\ InProgress
    /\ \E d \in {<<0, 4, 8>>, <<2, 4, 6>>} :
          /\ \A j \in 1 .. 3 : smallBoards[Last.boardIndex][d[j]] = Last.player
          /\ \E j \in 1 .. 3 : d[j] = Last.cellIndex
    /\ \E c \in Idx : smallBoards[Last.boardIndex][c] \in Player \ {Last.player}
    /\ \E b \in Idx : metaBoard[b] \in Player \ {Last.player}

\* The number of cells, of the 81, that hold the mark of player p.
Marks(p) == Cardinality({bc \in Idx \X Idx : smallBoards[bc[1]][bc[2]] = p})

\* C32: the number of X marks minus the number of O marks over all 81 cells
\* is 0 or 1, and currentPlayer is X exactly when the two counts are equal.
C32_MarksAlternate ==
    /\ Marks("X") - Marks("O") \in {0, 1}
    /\ currentPlayer = "X" <=> Marks("X") = Marks("O")

\* X has made the move that ended the match: X has one mark more than O and
\* the turn has passed to O.
C32_Witness ==
    /\ Accepted /\ ~InProgress
    /\ Last.player = "X"
    /\ Marks("X") = Marks("O") + 1
    /\ currentPlayer = "O"

-----------------------------------------------------------------------------
(* Properties of the CPU player, in matches against the CPU (SpecCpu). *)

\* This step is a call of makeCpuMoveIfNeeded that asked getCpuMove for a
\* move of the given difficulty.
CpuAsked(difficulty) ==
    /\ InProgress
    /\ currentPlayer = "O"
    /\ call'.op = "makeCpuMoveIfNeeded"
    /\ call'.difficulty = difficulty

\* The last call was a makeCpuMoveIfNeeded that made the move found by the
\* named step of the cascade of the given difficulty.
CpuMoved(difficulty, step) ==
    /\ call.op = "makeCpuMoveIfNeeded"
    /\ call.ret
    /\ call.difficulty = difficulty
    /\ call.cpuMove.by = step
    /\ lastMove = Some([boardIndex |-> call.cpuMove.move[1].boardIndex,
                        cellIndex |-> call.cpuMove.move[1].cellIndex,
                        player |-> "O"])

\* C16: for every difficulty, getCpuMove returns no move when the match is won
\* or drawn, and otherwise a move for which checkValidMove is true in the
\* state it was asked in, whichever step of the cascade and whichever random
\* outcomes produced it.
C16_CpuMoveIsLegal ==
    [][/\ ~InProgress =>
            \A d \in CpuDifficulty :
                \A t \in RandomTests(d) :
                    getCpuMove(State, d, outcomes(t, 0)).move = None
       /\ \A d \in CpuDifficulty :
            CpuAsked(d) =>
                /\ call'.cpuMove.move # None
                /\ checkValidMove(State, call'.cpuMove.move[1].boardIndex,
                                  call'.cpuMove.move[1].cellIndex)]_vars

\* The CPU, at easy strength, has made the random move of its last step.
C16_Witness == CpuMoved("easy", "random")

\* C17: getBestMove writes to none of the arrays it is given (smallBoards and
\* boardWinners, the engine's live meta-board cells), at every difficulty and
\* also when it runs the depth-4 minimax.
C17_NoWritesToInputs ==
    [][\A d \in CpuDifficulty : CpuAsked(d) => call'.cpuMove.writes = {}]_vars

\* The CPU, at expert strength, has made the move its depth-4 minimax found,
\* and the call wrote to none of its inputs.
C17_Witness == CpuMoved("expert", "findMinimaxMove") /\ call.cpuMove.writes = {}

\* The legal moves of the state after which makeMove has made the player to
\* move the winner of the match.
MatchWinningMoves(st) ==
    {bc \in Idx \X Idx :
        /\ checkValidMove(st, bc[1], bc[2])
        /\ makeMove(st, bc[1], bc[2]).winner = st.currentPlayer}

\* C18: at expert strength, when some legal move makes the player to move the
\* winner of the match, the move getBestMove returns does so.
C18_ExpertTakesMatchWin ==
    [][(CpuAsked("expert") /\ MatchWinningMoves(State) # {}) => winner' = "O"]_vars

\* The CPU, at expert strength, has won the match with the move that
\* findGameWinningMove found.
C18_Witness == CpuMoved("expert", "findGameWinningMove") /\ winner = "O"

\* The legal moves of the state onto the empty third cell of a line of a small
\* board of which the opponent of the player to move holds the other two.
BlockingCells(st) ==
    {bc \in Idx \X Idx :
        /\ checkValidMove(st, bc[1], bc[2])
        /\ \E i \in DOMAIN WIN_PATTERNS :
              /\ \E j \in 1 .. 3 : WIN_PATTERNS[i][j] = bc[2]
              /\ \A j \in 1 .. 3 :
                    \/ WIN_PATTERNS[i][j] = bc[2]
                    \/ st.smallBoards[bc[1]][WIN_PATTERNS[i][j]]
                           = opponentOf(st.currentPlayer)}

\* The legal moves of the state that win their small board for the player to
\* move.
BoardWinningMoves(st) ==
    {bc \in Idx \X Idx :
        /\ checkValidMove(st, bc[1], bc[2])
        /\ makeMove(st, bc[1], bc[2]).metaBoard[bc[1]] = st.currentPlayer}

\* The move that the call of getCpuMove in this step returned.
ReturnedMove ==
    <<call'.cpuMove.move[1].boardIndex, call'.cpuMove.move[1].cellIndex>>

\* C19, as stated: at expert strength, when the opponent holds two cells of a
\* line of a small board whose third cell is empty and legal to play, and no
\* move wins the match, getBestMove returns such a blocking cell.
C19_ExpertBlocksBoardThreat ==
    [][(/\ CpuAsked("expert")
        /\ BlockingCells(State) # {}
        /\ MatchWinningMoves(State) = {})
       => ReturnedMove \in BlockingCells(State)]_vars

\* C19, amended: the same when, besides, findGameBlockingMove finds no move
\* (step 2 of the cascade) and no legal move wins a small board for the player
\* to move (step 3): then getBestMove returns a blocking cell.
C19_ExpertBlocksAfterEarlierSteps ==
    [][(/\ CpuAsked("expert")
        /\ BlockingCells(State) # {}
        /\ MatchWinningMoves(State) = {}
        /\ findGameBlockingMove(
               cpuBoardState(State) @@ [callers |-> TRUE],
               getValidMoves(cpuBoardState(State))).move = None
        /\ BoardWinningMoves(State) = {})
       => ReturnedMove \in BlockingCells(State)]_vars

\* The CPU, at expert strength, has made the move that findBlockingMove found.
C19_Witness == CpuMoved("expert", "findBlockingMove")


\* C23 as claimed: at expert strength, when the player to move has no
\* match-winning move and the move returned is findGameBlockingMove's, the
\* opponent has, after that move, no legal move that wins the match.
C23_MatchBlockLeavesNoMatchWin ==
    [][(/\ CpuAsked("expert")
        /\ MatchWinningMoves(State) = {}
        /\ call'.cpuMove.by = "findGameBlockingMove")
       => MatchWinningMoves(State') = {}]_vars

\* The BoardState of the engine's fields, as getBestMove builds it.
BoardStateNow == cpuBoardState(State) @@ [callers |-> TRUE]

\* The depth at which getModerateMove (2) and getExpertMove (4) call
\* findMinimaxMove.
SearchDepth(difficulty) == IF difficulty = "moderate" THEN 2 ELSE 4

\* The score findMinimaxMove's loop computes for each move of validMoves.
RootScores(state, depth) ==
    [k \in DOMAIN getValidMoves(state) |->
        minimax(simulateMove(state, getValidMoves(state)[k]).state, depth - 1, FALSE,
                0 - Infinity, Infinity).score]

\* The first index of the highest of the scores.
FirstBest(scores) ==
    CHOOSE k \in DOMAIN scores :
        /\ \A j \in DOMAIN scores : scores[j] <= scores[k]
        /\ \A j \in DOMAIN scores : j < k => scores[j] < scores[k]

\* validMoves lists the moves by board index, then by cell index.
Enumerated(validMoves) ==
    \A j, k \in DOMAIN validMoves :
        j < k => \/ validMoves[j].boardIndex < validMoves[k].boardIndex
                 \/ /\ validMoves[j].boardIndex = validMoves[k].boardIndex
                    /\ validMoves[j].cellIndex < validMoves[k].cellIndex

\* C24: findMinimaxMove returns, of the legal moves whose minimax score is the
\* highest, the first in the order of enumeration (board index ascending, then
\* cell index ascending): a later move of equal score never replaces it.
C24_FirstOfBestScore ==
    [][\A d \in {"moderate", "expert"} :
          (CpuAsked(d) /\ call'.cpuMove.by = "findMinimaxMove") =>
              /\ Enumerated(getValidMoves(BoardStateNow))
              /\ call'.cpuMove.move
                     = Some(getValidMoves(BoardStateNow)[
                                FirstBest(RootScores(BoardStateNow, SearchDepth(d)))])]_vars

\* A later move has the same score as the first of the best.
Tied(scores) ==
    \E k \in DOMAIN scores :
        k > FirstBest(scores) /\ scores[k] = scores[FirstBest(scores)]

\* O is to move, the cascade of getModerateMove or getExpertMove comes to
\* findMinimaxMove, and a later move has the same score as the first of the
\* best.
C24_Witness ==
    /\ InProgress
    /\ currentPlayer = "O"
    /\ \E d \in {"moderate", "expert"} :
          /\ \E tests \in RandomTests(d) :
                getBestMove(BoardStateNow.smallBoards, BoardStateNow.boardWinners,
                            activeBoard, currentPlayer, gameRules, d,
                            outcomes(tests, 0)).by = "findMinimaxMove"
          /\ Tied(RootScores(BoardStateNow, SearchDepth(d)))

\* simulateMove, from the BoardState of the engine's fields, leaves the cells,
\* boardWinners, activeBoard and currentPlayer that makeMove leaves.
SimulatedAsMade(boardIndex, cellIndex) ==
    LET newState == simulateMove(BoardStateNow, [boardIndex |-> boardIndex,
                                                 cellIndex |-> cellIndex]).state
        after == makeMove(State, boardIndex, cellIndex)
    IN  /\ \A b \in Idx : flat(newState.smallBoards[b]) = after.smallBoards[b]
        /\ newState.boardWinners = after.metaBoard
        /\ newState.activeBoard = after.activeBoard
        /\ newState.currentPlayer = after.currentPlayer

\* C34: for every reachable state of a match in progress and every legal
\* move, CpuPlayer.simulateMove produces the same cells, boardWinners,
\* activeBoard and currentPlayer as the engine's makeMove.
C34_SimulateMoveAsMakeMove ==
    InProgress => \A bc \in ValidMoves : SimulatedAsMade(bc[1], bc[2])

\* A legal move wins the match and sends the next player to an undecided
\* sub-board: makeMove sets winner, boardWinners and activeBoard, and leaves
\* the turn with the loser.
C34_Witness ==
    /\ InProgress
    /\ \E bc \in ValidMoves :
          /\ makeMove(State, bc[1], bc[2]).winner # null
          /\ makeMove(State, bc[1], bc[2]).activeBoard # None

\* The cascade of the given difficulty comes to findMinimaxMove in this state,
\* for some outcomes of Math.random().
Searches(difficulty) ==
    /\ InProgress
    /\ currentPlayer = "O"
    /\ \E tests \in RandomTests(difficulty) :
          getBestMove(BoardStateNow.smallBoards, BoardStateNow.boardWinners,
                      activeBoard, currentPlayer, gameRules, difficulty,
                      outcomes(tests, 0)).by = "findMinimaxMove"

\* The positions findMinimaxMove simulates and hands to minimax: the state
\* after each move of validMoves.
RootPositions(state) ==
    {simulateMove(state, getValidMoves(state)[k]).state :
        k \in DOMAIN getValidMoves(state)}

\* A player holds the three sub-board outcomes of a line of the meta-board.
MetaLineHeld(state) ==
    HasLine(state.boardWinners, "X") \/ HasLine(state.boardWinners, "O")

\* minimax at this depth returns evaluateBoard(state) and simulates no move.
Terminal(state, depth) == depth = 0 \/ getValidMoves(state) = <<>>

\* C25: during the minimax search, a simulated position in which a player
\* holds all three sub-board outcomes of a meta-board line is terminal: its
\* value is exactly +10000 or -10000 and no further moves are simulated below
\* it.
C25_WonPositionIsTerminal ==
    \A d \in {"moderate", "expert"} :
        Searches(d) =>
            \A position \in RootPositions(BoardStateNow) :
                MetaLineHeld(position) =>
                    /\ Terminal(position, SearchDepth(d) - 1)
                    /\ minimax(position, SearchDepth(d) - 1, FALSE,
                               0 - Infinity, Infinity).score \in {10000, 0 - 10000}

\* The score evaluateBoard gives a position for the player the move is
\* chosen for, the currentPlayer of the root.
ScoreFor(player, position) == evaluateBoard([position EXCEPT !.currentPlayer = player])

\* C35: in findMinimaxMove at depth 2 and depth 4, the values evaluateBoard
\* produces are scored from the perspective of the root currentPlayer,
\* including those of positions evaluated early because no valid move remains
\* before the depth limit (here: right after the root move).
C35_ScoredForRootPlayer ==
    \A d \in {"moderate", "expert"} :
        Searches(d) =>
            \A position \in RootPositions(BoardStateNow) :
                Terminal(position, SearchDepth(d) - 1) =>
                    minimax(position, SearchDepth(d) - 1, FALSE,
                            0 - Infinity, Infinity).score
                        = ScoreFor(BoardStateNow.currentPlayer, position)

\* The highest and the lowest of a set of scores.
Highest(scores) == CHOOSE x \in scores : \A y \in scores : y <= x

Lowest(scores) == CHOOSE x \in scores : \A y \in scores : x <= y

\* Minimax without pruning: the score of every move is computed, and the
\* maximizing player takes the highest, the minimizing player the lowest.
RECURSIVE plainMinimax(_, _, _)
plainMinimax(state, depth, isMaximizing) ==
    IF Terminal(state, depth) THEN evaluateBoard(state)
    ELSE IF isMaximizing
    THEN Highest({plainMinimax(simulateMove(state, getValidMoves(state)[k]).state,
                               depth - 1, FALSE) : k \in DOMAIN getValidMoves(state)})
    ELSE Lowest({plainMinimax(simulateMove(state, getValidMoves(state)[k]).state,
                              depth - 1, TRUE) : k \in DOMAIN getValidMoves(state)})

\* The score of each move of validMoves by minimax without pruning.
PlainRootScores(state, depth) ==
    [k \in DOMAIN getValidMoves(state) |->
        plainMinimax(simulateMove(state, getValidMoves(state)[k]).state, depth - 1,
                     FALSE)]

\* The depths at which the search is compared with minimax without pruning.
SearchDepths == 1 .. 4

\* C26: for every search depth up to 4, the value that minimax with
\* alpha-beta pruning returns for each root move, called with the window
\* -Infinity .. +Infinity, equals the value of minimax without pruning, and the
\* move findMinimaxMove returns is the first of the best by the values
\* without pruning.
C26_PruningKeepsValues ==
    [][\A d \in {"moderate", "expert"} :
          (CpuAsked(d) /\ call'.cpuMove.by = "findMinimaxMove") =>
              /\ \A depth \in SearchDepths :
                    RootScores(BoardStateNow, depth) = PlainRootScores(BoardStateNow, depth)
              /\ call'.cpuMove.move
                     = Some(getValidMoves(BoardStateNow)[
                           FirstBest(PlainRootScores(BoardStateNow, SearchDepth(d)))])]_vars

\* The loop of minimax over the moves of a position, from the window the
\* caller hands down.
LoopFrom(state, last, depth, isMaximizing, alpha, beta) ==
    minimaxLoop(state, getValidMoves(state), 1, last, depth, isMaximizing,
                [score  |-> IF isMaximizing THEN 0 - Infinity ELSE Infinity,
                 alpha  |-> alpha,
                 beta   |-> beta,
                 writes |-> {},
                 cut    |-> FALSE])

\* Below the root position, the search at this depth breaks out of the loop
\* of one of the replies to the opponent's j-th move before the last reply.
PrunedBelow(position, depth) ==
    \E j \in 2 .. Len(getValidMoves(position)) :
        LET before == LoopFrom(position, j - 1, depth, FALSE, 0 - Infinity, Infinity)
            reply == simulateMove(position, getValidMoves(position)[j]).state
        IN  /\ depth > 1
            /\ Len(getValidMoves(reply)) > 1
            /\ LoopFrom(reply, Len(getValidMoves(reply)) - 1, depth - 1, TRUE,
                        before.alpha, before.beta).cut

\* O is to move, the cascade of getExpertMove comes to findMinimaxMove, and
\* the search below one of the root moves prunes a reply.
C26_Witness ==
    /\ Searches("expert")
    /\ \E position \in RootPositions(BoardStateNow) :
          PrunedBelow(position, SearchDepth("expert") - 1)

\* C27: expert strength is deterministic: in every state with at least one
\* legal move the cascade of getExpertMove returns a move before its random
\* last step, findMinimaxMove yielding one when no earlier search does (the
\* fallback after it is never needed), and getBestMove returns the same move
\* whatever Math.random() returns.
C27_ExpertIsDeterministic ==
    [][(CpuAsked("expert") /\ getValidMoves(BoardStateNow) # <<>>) =>
          /\ call'.ret
          /\ call'.cpuMove.by \notin {"random", "none", "findStrategicMove"}
          /\ \A tests \in RandomTests("expert"), index \in RandomIndexes(BoardStateNow) :
                getBestMove(BoardStateNow.smallBoards, BoardStateNow.boardWinners,
                            activeBoard, currentPlayer, gameRules, "expert",
                            outcomes(tests, index)).move = call'.cpuMove.move]_vars

\* The CPU, at expert strength, has made the move of findMinimaxMove, the last
\* search of the cascade, on a sub-board that still has an empty cell: the
\* random step had more than one move to draw from.
C27_Witness ==
    /\ CpuMoved("expert", "findMinimaxMove")
    /\ \E c \in Idx : smallBoards[Last.boardIndex][c] = null

-----------------------------------------------------------------------------
(* Properties of the marks in a match against the CPU (SpecMatch). *)

\* C28: between resets, a cell that holds X or O never becomes empty and
\* never changes to the other mark, whether the step is a makeMove, a
\* setGameRules or a move of the CPU.
C28_MarksStay ==
    [][call'.op # "resetGame" =>
          \A b \in Idx, c \in Idx :
              smallBoards[b][c] \in Player => smallBoards'[b][c] = smallBoards[b][c]]_vars

\* The CPU has placed a mark on a sub-board that already held marks of both
\* players.
C28_Witness ==
    /\ call.op = "makeCpuMoveIfNeeded"
    /\ call.ret
    /\ \E c \in Idx : smallBoards[Last.boardIndex][c] = "X"
    /\ \E c \in Idx : c # Last.cellIndex /\ smallBoards[Last.boardIndex][c] = "O"

-----------------------------------------------------------------------------
(* Termination of a match (SpecPlay). *)

-----------------------------------------------------------------------------
(* Properties of restoring a match (SpecLoad). *)

\* The last operation restored the engine from a text that no saveGameState
\* wrote.
RestoredMalformed ==
    /\ call.op = "loadGameState"
    /\ call.kind \in StoredKinds \ {"saved"}

\* C21 as claimed: creating the engine from a malformed or corrupt snapshot
\* raises no error, the load is reported as failed (loadGameState returns
\* null) and the engine is a fresh match in progress.
C21_MalformedFallsBackToFresh ==
    RestoredMalformed =>
        /\ call.ret # "TypeError"
        /\ call.savedState = None
        /\ State = Fresh

-----------------------------------------------------------------------------
(* Properties of the objects getState returns (SpecSnapshot). *)

\* C22 as claimed: an object that getState returned keeps the value of every
\* member through every later makeMove on the engine.
C22_SnapshotImmutable ==
    [][(gameState # None /\ call'.op = "makeMove") => gameState' = gameState]_vars

-----------------------------------------------------------------------------
(* Properties of the CPU's turn on the page (SpecCpuTurn). *)

\* The callbacks of handleCpuTurn that wait.
CpuCallbacks == {i \in 1 .. Len(timeouts) : timeouts[i] = "handleCpuTurn"}

\* The step is a run of the callback of handleCpuTurn, the only caller of
\* makeCpuMoveIfNeeded on the page.
CpuCallbackRuns == call'.op = "makeCpuMoveIfNeeded"

\* The step is a click on a cell while the CPU is thinking.
ClickWhileThinking == call'.op = "handleCellClick" /\ isCpuThinking

\* The step sets one mark, O, in an empty cell and changes no other cell.
PlacesOneO ==
    \E boardIndex \in Idx, cellIndex \in Idx :
        /\ smallBoards[boardIndex][cellIndex] = null
        /\ smallBoards' = [smallBoards EXCEPT ![boardIndex][cellIndex] = "O"]

\* C38: in a match against the CPU, a mark that the callback of handleCpuTurn
\* places is an O, placed while it is O's turn in a match that is in progress;
\* a click while the CPU is thinking changes nothing of the match, and the
\* CPU is thinking for as long as a callback waits, so that a callback which
\* runs after the match was reset or has ended places no mark.
C38_CpuCallbackPlacesO ==
    /\ [](Cardinality(CpuCallbacks) <= 1)
    /\ [](CpuCallbacks # {} => isCpuThinking)
    /\ [][/\ (CpuCallbackRuns /\ smallBoards' # smallBoards) =>
                 /\ gameMode = "human-vs-cpu"
                 /\ currentPlayer = "O"
                 /\ winner = null
                 /\ ~isDraw
                 /\ PlacesOneO
          /\ (CpuCallbackRuns /\ (currentPlayer = "X" \/ winner # null \/ isDraw))
                 => UNCHANGED engine
          /\ ClickWhileThinking => UNCHANGED <<engine, cpuTurn>>]_vars

\* The match was reset while the CPU was thinking, and the callback has run
\* and placed no mark: the board is empty and it is X's turn.
C38_Witness ==
    /\ call.op = "makeCpuMoveIfNeeded"
    /\ call.ret = FALSE
    /\ gameMode = "human-vs-cpu"
    /\ lastMove = None
    /\ currentPlayer = "X"
    /\ ~isCpuThinking
    /\ timeouts = <<>>

-----------------------------------------------------------------------------
(* Properties of the connections of a host (SpecPeers). *)

\* Peer p is a host whose connection is open.
HostOfOpenGame(p) == players[p].role = "host" /\ connectionOpen(World, p)

\* C39: a host has at most one game connection.  A connection that comes in
\* while the host's connection is open leaves the host's connection, role
\* (host) and mark (X) as they are and is not set up as a game connection; when
\* it opens, the host answers 'game-full' on it and starts the timeout that
\* closes it, and the timeout closes it.  A peer that is not in the host role
\* closes a connection that comes in and stays as it is.
C39_OneGameConnection ==
    [][\A c \in Conns :
          LET p == conns[c].callee
          IN  /\ (ConnectionEvent(c) /\ HostOfOpenGame(p)) =>
                    /\ players'[p] = players[p]
                    /\ players'[p].localPlayer = "X"
                    /\ conns'[players[p].connection[1]] =
                           conns[players[p].connection[1]]
                    /\ conns'[c].full
                    /\ ~conns'[c].setup["callee"]
              /\ (OpenEvent(c, "callee") /\ conns[c].full) =>
                    /\ players'[p] = players[p]
                    /\ conns'[c].inbox["dialer"] =
                           Append(conns[c].inbox["dialer"],
                                  StatusMessage("game-full"))
                    /\ conns'[c].closeTimer
              /\ CloseTimeout(c) =>
                    /\ players'[p] = players[p]
                    /\ ~conns'[c].live["callee"]
              /\ (ConnectionEvent(c) /\ players[p].role # "host") =>
                    /\ players'[p] = players[p]
                    /\ ~conns'[c].live["callee"]
                    /\ ~conns'[c].setup["callee"]]_vars

\* The host has answered a third player and closed that connection, and its
\* own connection is still open.
C39_Witness ==
    \E c \in Conns :
        /\ conns[c].full
        /\ ~conns[c].closeTimer
        /\ ~conns[c].live["callee"]
        /\ conns[c].open["dialer"]
        /\ HostOfOpenGame(conns[c].callee)
        /\ players[conns[c].callee].connection # Some(c)
        /\ players[conns[c].callee].localPlayer = "X"

-----------------------------------------------------------------------------
(* Properties of an online match (SpecOnline). *)

\* The guest of connection c takes the host's 'game-start': its onGameStart
\* runs, the host's has run when the host sent the message.
GameStarts(c) ==
    /\ DataEvent(c, "dialer")
    /\ conns[c].setup["dialer"]
    /\ Head(conns[c].inbox["dialer"]) = StatusMessage("game-start")

RemoteMovePlaces(c, side) ==
    /\ DataEvent(c, side)
    /\ conns[c].setup[side]
    /\ Head(conns[c].inbox[side]).type = "move"
    /\ pages'[ownerOf(World, c, side)].game.smallBoards #
           pages[ownerOf(World, c, side)].game.smallBoards

=============================================================================
